---- MODULE Spec2Model ----
(***************************************************************************)
(* The message-intake and conversation-state subsystem of the Feishu bot:  *)
(*   src/src/bot/feishu_ws.py            FeishuBot (dedup gate, executor)  *)
(*   src/src/bot/conversation_memory.py  ConversationMemory                *)
(*                                                                         *)
(* Four specifications share the variables:                                *)
(*   Spec        ingress threads run _handle_message statement by          *)
(*               statement (lock, test, add, evict, submit); the executor  *)
(*               hands queued tasks to its workers.                        *)
(*   MemSeqSpec  one caller invokes the ConversationMemory methods one     *)
(*               after the other (each call runs to completion).           *)
(*   MemSpec     pool workers run the conversational path of               *)
(*               _process_message_worker concurrently; ConversationMemory  *)
(*               has no lock, so its methods interleave.                   *)
(*   RouteSpec   start() resolves the bot identity and opens the event     *)
(*               stream; a pool worker then runs _process_message_worker   *)
(*               on one event after the other, gate by gate, through the   *)
(*               image handler, the commands and the conversational path.  *)
(* RouteFairSpec is RouteSpec with a fair scheduler, for liveness.         *)
(***************************************************************************)
EXTENDS Integers, Sequences, FiniteSets, TLC

(***************************************************************************)
(* Sizes.  The program's values are scaled down so that the cases can be   *)
(* enumerated: _max_cache_size is 500 (feishu_ws.py:93), max_workers is 10 *)
(* (feishu_ws.py:108), max_history is 10 and ttl_seconds is 3600           *)
(* (conversation_memory.py:26).                                            *)
(***************************************************************************)
max_cache_size == 2

max_workers == 2

\* Deliveries the ingress source makes in one run (the source sets no limit).
MaxDeliveries == 4

\* The "fixed queue capacity" that claim C10 speaks of; the code sets none.
QueueCapacity == 1

max_history == 2

ttl_seconds == 2

\* The clock runs from 0 to MaxTime (time.time() has no such limit).
MaxTime == 3

\* Calls of add_user_message / add_assistant_message made under MemSeqSpec.
MaxAdds == 3

\* Events the pool workers process under MemSpec.
MaxEvents == 3

\* Events a worker picks up in one run under RouteSpec.
MaxRouted == 2

\* line 202: age_seconds > 60
StaleSeconds == 60

Threads == {"t1", "t2"}

\* chat_id values and message texts
Convs == {"c1", "c2"}

Contents == {"a", "b"}

\* The pool workers that run the conversational path under MemSpec.
PoolWorkers == {"w1", "w2"}

\* self._conversations holds no entry for the chat_id (no stored context has a
\* negative last_updated)
NoCtx == [history |-> <<>>, last_updated |-> -1]

MsgIds == {"m1", "m2", "m3", "m4"}

WorkersOneMore == 1..(max_workers + 1)

Workers == 1..max_workers

NoThread == "free"

NoMsg == "none"

VARIABLES
    \* ---- FeishuBot state (feishu_ws.py:90-108)
    processed_messages,   \* self._processed_messages: set[str]
    lock,                 \* self._lock: the thread inside "with self._lock", or NoThread
    work_queue,           \* the executor's queue of submitted tasks (message ids)
    running,              \* running[w]: the task pool worker w is executing, or NoMsg
    \* ---- position of each ingress thread inside _handle_message
    pc,                   \* "idle" | "acquire" | "test" | "add" | "evict" | "submit"
    msg,                  \* msg[t]: the message_id of the delivery thread t handles
    \* ---- observation only (not program state)
    deliveries,           \* number of deliveries made so far
    raced,                \* raced[t]: when t was called, its id was not cached and another
                          \* thread's call with the same id had not yet made its test
    outcome,              \* outcome[t]: how t's latest call ended: "duplicate" | "submitted"
    answers,              \* answers[m]: 'not seen' answers for m since m was last evicted
    submitted,            \* number of tasks handed to executor.submit
    insert_order,         \* the cached ids, earliest inserted first
    last_evicted,         \* the batch removed by the latest eviction
    oldest_then,          \* the earliest-inserted C/2 ids at the latest eviction
    taken,                \* number of tasks the workers have taken from the queue
    \* ---- ConversationMemory state (conversation_memory.py:26-29)
    conversations,        \* self._conversations: chat_id -> ConversationContext or NoCtx
    now,                  \* the clock read by time.time()
    \* ---- observation of sequential calls (MemSeqSpec)
    adds,                 \* number of add_*_message calls made
    add_log,              \* add_log[c]: the turns added to c since its context was created
    last_read,            \* what get_history saw and returned, when it was the latest
                          \* call; the id clear was given, when that was the latest
    \* ---- pool workers on the conversational path (MemSpec),
    \*      feishu_ws.py:314-327 and 485-522
    wpc,                  \* "idle" | "ensure" | "create" | "add" | "scan" | "del" |
                          \* "test" | "read" | "llm" | "reply"
    wphase,               \* "user": in add_user_message .. _call_llm; "assistant": after
    wchat,                \* chat_id of the event the worker processes
    wtext,                \* user_text of that event
    wexpired,             \* _cleanup_expired's local list 'expired', not yet deleted
    wnow,                 \* _cleanup_expired's local 'now' (line 64)
    whist,                \* the list get_history returned to _call_llm
    wreply,               \* reply_text
    wfail,                \* the exception a ConversationMemory call raised, or "none"
    events,               \* number of events that reached the conversational path
    \* ---- start(), feishu_ws.py:110-167
    spc,                  \* "new" | "token" | "info" | "register" | "serving", or how
                          \* start() returned: "unconfigured" | "auth_failed" |
                          \* "identity_failed"
    bot_info,             \* self.bot_info: NoBot until line 147 assigns the identity
    \* ---- one pool worker inside _process_message_worker (RouteSpec)
    rpc,                  \* the statement the worker is at, "idle" when it has no event
    ev,                   \* data.event: the event being processed, or NoEvent
    age_ms,               \* the local age_seconds (line 201), in milliseconds
    user_text,            \* the local user_text (lines 227-243)
    reply_text,           \* the local reply_text (line 322), Unbound before that
    image_key,            \* the image key handed to _handle_image_message
    caption,              \* the caption handed to _handle_image_message
    project,              \* the local project of _handle_deep_analysis
    \* ---- observation of the event being processed (not program state)
    replies,              \* the reply attempts made for the event, in order
    calls,                \* the collaborator and memory calls made for the event, in order
    mem_before,           \* self.memory._conversations when the event was picked up
    routed,               \* the handler the event reached
    ending,               \* how the event ended
    logged,               \* a failure of the event was printed
    routed_events         \* number of events picked up so far

dedupVars == <<processed_messages, lock, work_queue, running, pc, msg, deliveries,
               raced, outcome, answers, submitted, insert_order,
               last_evicted, oldest_then, taken>>

memVars == <<conversations, now>>

seqVars == <<adds, add_log, last_read>>

workerVars == <<wpc, wphase, wchat, wtext, wexpired, wnow, whist, wreply, wfail,
                events>>

routeVars == <<spc, bot_info, rpc, ev, age_ms, user_text, reply_text, image_key,
               caption, project, replies, calls, mem_before, routed, ending,
               logged, routed_events>>

vars == <<dedupVars, memVars, seqVars, workerVars, routeVars>>

(***************************************************************************)
(* Helpers                                                                 *)
(***************************************************************************)
RECURSIVE SeqToSet(_)
SeqToSet(s) == IF s = <<>> THEN {} ELSE {Head(s)} \cup SeqToSet(Tail(s))

RECURSIVE SeqRemove(_, _)
SeqRemove(s, B) ==
    IF s = <<>> THEN <<>>
    ELSE IF Head(s) \in B THEN SeqRemove(Tail(s), B)
         ELSE <<Head(s)>> \o SeqRemove(Tail(s), B)

FirstN(s, n) == SubSeq(s, 1, IF n < Len(s) THEN n ELSE Len(s))

(***************************************************************************)
(* _handle_message, feishu_ws.py:169-187                                   *)
(***************************************************************************)
\* line 177: message_id in self._processed_messages
SeenAlways(m) == FALSE

Seen(m) == m \in processed_messages

\* line 181: len(self._processed_messages) > self._max_cache_size
NeedsEvictionLate(S) == Cardinality(S) > max_cache_size + 1

NeedsEviction(S) == Cardinality(S) > max_cache_size

\* line 182: list(self._processed_messages)[:self._max_cache_size // 2].  The
\* set is a Python set: list() enumerates it in hash-table order, which the
\* insertion order does not decide, so the slice can be any C/2 of its ids.
Oldest(S) == {B \in SUBSET S : Cardinality(B) = max_cache_size \div 2}

\* line 187: self.executor.submit(...) puts the task on the executor's queue,
\* which is an unbounded queue.SimpleQueue: submit never refuses a task.
SubmitBounded(q, m) == IF Len(q) >= QueueCapacity THEN q ELSE Append(q, m)

SubmitTwice(q, m) == Append(Append(q, m), m)

Submit(q, m) == Append(q, m)

\* The platform calls _handle_message(data) on thread t (lines 169-173).
Deliver(t, m) ==
    /\ pc[t] = "idle"
    /\ deliveries < MaxDeliveries
    /\ pc' = [pc EXCEPT ![t] = "acquire"]
    /\ msg' = [msg EXCEPT ![t] = m]
    /\ raced' = [raced EXCEPT ![t] =
                    /\ ~(m \in processed_messages)
                    /\ \E u \in Threads \ {t} :
                          msg[u] = m /\ pc[u] \in {"acquire", "test"}]
    /\ deliveries' = deliveries + 1
    /\ outcome' = [outcome EXCEPT ![t] = "none"]
    /\ UNCHANGED <<processed_messages, lock, work_queue, running, answers, submitted,
                   insert_order, last_evicted, oldest_then, taken,
                   memVars, seqVars, workerVars, routeVars>>

\* line 176: with self._lock  (entry)
Acquire(t) ==
    /\ pc[t] = "acquire"
    /\ lock = NoThread
    /\ lock' = t
    /\ pc' = [pc EXCEPT ![t] = "test"]
    /\ UNCHANGED <<processed_messages, work_queue, running, msg, deliveries,
                   raced, answers, submitted, insert_order, last_evicted,
                   oldest_then, taken, outcome,
                   memVars, seqVars, workerVars, routeVars>>

\* lines 177-179: the membership test; a duplicate returns (leaving the with
\* block releases the lock) and nothing is submitted.
TestDuplicate(t) ==
    /\ pc[t] = "test"
    /\ Seen(msg[t])
    /\ lock' = NoThread
    /\ pc' = [pc EXCEPT ![t] = "idle"]
    /\ msg' = [msg EXCEPT ![t] = NoMsg]
    /\ outcome' = [outcome EXCEPT ![t] = "duplicate"]
    /\ UNCHANGED <<processed_messages, work_queue, running, deliveries, raced,
                   answers, submitted, insert_order, last_evicted, oldest_then, taken,
                   memVars, seqVars, workerVars, routeVars>>

TestNew(t) ==
    /\ pc[t] = "test"
    /\ ~Seen(msg[t])
    /\ pc' = [pc EXCEPT ![t] = "add"]
    /\ answers' = [answers EXCEPT ![msg[t]] = @ + 1]
    /\ UNCHANGED <<processed_messages, lock, work_queue, running, msg, deliveries,
                   raced, submitted, insert_order, last_evicted, oldest_then,
                   taken, outcome,
                   memVars, seqVars, workerVars, routeVars>>

\* line 180: self._processed_messages.add(message_id)
Add(t) ==
    /\ pc[t] = "add"
    /\ processed_messages' = processed_messages \cup {msg[t]}
    /\ insert_order' = IF msg[t] \in processed_messages THEN insert_order
                       ELSE Append(insert_order, msg[t])
    /\ pc' = [pc EXCEPT ![t] = "evict"]
    /\ UNCHANGED <<lock, work_queue, running, msg, deliveries, raced, answers,
                   submitted, last_evicted, oldest_then, taken, outcome,
                   memVars, seqVars, workerVars, routeVars>>

\* lines 181-184: the batch eviction, then the end of the with block.
EvictBatch(t) ==
    /\ pc[t] = "evict"
    /\ NeedsEviction(processed_messages)
    /\ \E B \in Oldest(processed_messages) :
          /\ processed_messages' = processed_messages \ B
          /\ insert_order' = SeqRemove(insert_order, B)
          /\ answers' = [m \in MsgIds |-> IF m \in B THEN 0 ELSE answers[m]]
          /\ last_evicted' = B
          /\ oldest_then' = SeqToSet(FirstN(insert_order, max_cache_size \div 2))
    /\ lock' = NoThread
    /\ pc' = [pc EXCEPT ![t] = "submit"]
    /\ UNCHANGED <<work_queue, running, msg, deliveries, raced, submitted, taken,
                   outcome,
                   memVars, seqVars, workerVars, routeVars>>

EvictNone(t) ==
    /\ pc[t] = "evict"
    /\ ~NeedsEviction(processed_messages)
    /\ lock' = NoThread
    /\ pc' = [pc EXCEPT ![t] = "submit"]
    /\ UNCHANGED <<processed_messages, work_queue, running, msg, deliveries,
                   raced, answers, submitted, insert_order, last_evicted,
                   oldest_then, taken, outcome,
                   memVars, seqVars, workerVars, routeVars>>

\* line 187: self.executor.submit(self._process_message_worker, data)
SubmitTask(t) ==
    /\ pc[t] = "submit"
    /\ work_queue' = Submit(work_queue, msg[t])
    /\ submitted' = submitted + 1
    /\ pc' = [pc EXCEPT ![t] = "idle"]
    /\ msg' = [msg EXCEPT ![t] = NoMsg]
    /\ outcome' = [outcome EXCEPT ![t] = "submitted"]
    /\ UNCHANGED <<processed_messages, lock, running, deliveries, raced, answers,
                   insert_order, last_evicted, oldest_then, taken,
                   memVars, seqVars, workerVars, routeVars>>

(***************************************************************************)
(* The executor, feishu_ws.py:107-108: ThreadPoolExecutor(max_workers=10). *)
(* An idle pool worker takes the head of the queue and runs                *)
(* _process_message_worker on it to its end.                               *)
(***************************************************************************)
WorkerStart(w) ==
    /\ running[w] = NoMsg
    /\ work_queue # <<>>
    /\ running' = [running EXCEPT ![w] = Head(work_queue)]
    /\ work_queue' = Tail(work_queue)
    /\ taken' = taken + 1
    /\ UNCHANGED <<processed_messages, lock, pc, msg, deliveries, raced, answers,
                   submitted, insert_order, last_evicted, oldest_then, outcome,
                   memVars, seqVars, workerVars, routeVars>>

\* _process_message_worker returns (lines 189-335); the worker is idle again.
WorkerFinish(w) ==
    /\ running[w] # NoMsg
    /\ running' = [running EXCEPT ![w] = NoMsg]
    /\ UNCHANGED <<processed_messages, lock, work_queue, pc, msg, deliveries,
                   raced, answers, submitted, insert_order, last_evicted,
                   oldest_then, taken, outcome,
                   memVars, seqVars, workerVars, routeVars>>

(***************************************************************************)
(* ConversationMemory, conversation_memory.py                              *)
(***************************************************************************)
\* One entry of the history deque (line 16).  The dict holds role and content;
\* "at" records when the turn was added and is observation only.
Turn(role, content, t) == [role |-> role, content |-> content, at |-> t]

\* lines 58-60 with the default of last_updated (line 12): a context with an
\* empty deque(maxlen=max_history), stamped with the current time.
NewContext(t) == [history |-> <<>>, last_updated |-> t]

\* deque(maxlen=max_history).append (lines 16, 59): a full deque drops its
\* leftmost entry.
DequeAppendUnbounded(h, x) == Append(h, x)

DequeAppend(h, x) ==
    IF Len(h) >= max_history THEN Append(Tail(h), x) ELSE Append(h, x)

\* ConversationContext.add_message, lines 14-17
AddMessage(ctx, role, content, t) ==
    [history |-> DequeAppend(ctx.history, Turn(role, content, t)),
     last_updated |-> t]

\* ConversationContext.get_messages, lines 19-21: a copy of the deque as a list
GetMessages(ctx) == ctx.history

\* _ensure_context, lines 55-60
EnsureContext(cs, c, t) ==
    IF cs[c] = NoCtx THEN [cs EXCEPT ![c] = NewContext(t)] ELSE cs

\* line 67: now - ctx.last_updated > self.ttl_seconds
IsExpiredAtTTL(ctx, t) == t - ctx.last_updated >= ttl_seconds

IsExpired(ctx, t) == t - ctx.last_updated > ttl_seconds

\* lines 65-68: the ids collected for removal
ExpiredIdsOne(cs, t) ==
    LET all == {c \in Convs : cs[c] # NoCtx /\ t - cs[c].last_updated > ttl_seconds}
    IN  IF all = {} THEN {} ELSE {CHOOSE c \in all : TRUE}

ExpiredIds(cs, t) == {c \in Convs : cs[c] # NoCtx /\ IsExpired(cs[c], t)}

\* _cleanup_expired run to its end, lines 62-70
CleanupExpired(cs, t) ==
    [c \in Convs |-> IF c \in ExpiredIds(cs, t) THEN NoCtx ELSE cs[c]]

StoreSize(cs) == Cardinality({c \in Convs : cs[c] # NoCtx})

LastN(s, n) == IF Len(s) <= n THEN s ELSE SubSeq(s, Len(s) - n + 1, Len(s))

NoRead == [chat |-> "none", age |-> -1, empty |-> TRUE, same |-> TRUE,
           kept |-> FALSE, shrank |-> FALSE, cleared |-> "none",
           changed |-> FALSE]

(***************************************************************************)
(* MemSeqSpec: one caller, each ConversationMemory call runs to its end.   *)
(***************************************************************************)
\* add_user_message / add_assistant_message, lines 40-48
SeqAdd(c, role, x) ==
    /\ adds < MaxAdds
    /\ adds' = adds + 1
    /\ conversations' =
          LET cs == EnsureContext(conversations, c, now)
          IN  [cs EXCEPT ![c] = AddMessage(cs[c], role, x, now)]
    /\ add_log' = [add_log EXCEPT ![c] = Append(@, Turn(role, x, now))]
    /\ last_read' = NoRead
    /\ UNCHANGED <<now, dedupVars, workerVars, routeVars>>

SeqAddUser(c, x) == SeqAdd(c, "user", x)

SeqAddAssistant(c, x) == SeqAdd(c, "assistant", x)

\* get_history, lines 31-38
SeqGetHistory(c) ==
    LET before == conversations
        after  == CleanupExpired(before, now)
        result == IF after[c] = NoCtx THEN <<>> ELSE GetMessages(after[c])
        stored == IF before[c] = NoCtx THEN <<>> ELSE before[c].history
    IN  /\ conversations' = after
        /\ add_log' = [d \in Convs |-> IF after[d] = NoCtx THEN <<>> ELSE add_log[d]]
        /\ last_read' =
              [chat   |-> c,
               age    |-> IF before[c] = NoCtx THEN -1
                          ELSE now - before[c].last_updated,
               empty  |-> result = <<>>,
               same   |-> result = stored,
               kept   |-> after[c] # NoCtx,
               shrank |-> StoreSize(after) < StoreSize(before),
               cleared |-> "none",
               changed |-> FALSE]
        /\ UNCHANGED <<now, adds, dedupVars, workerVars, routeVars>>

\* get_messages, line 21: list(self.history) builds a new list on every
\* call; the stored deque itself is not handed out
ReturnsStoredListAlways == TRUE

ReturnsStoredList == FALSE

\* The caller of get_history changes the list it was given (it empties it).
\* The stored turns change with it only if the list is the stored object.
SeqChangeReturned ==
    /\ last_read.chat # "none"
    /\ last_read.kept
    /\ ~last_read.changed
    /\ last_read' = [last_read EXCEPT !.changed = TRUE]
    /\ conversations' =
          IF ReturnsStoredList
          THEN [conversations EXCEPT ![last_read.chat].history = <<>>]
          ELSE conversations
    /\ UNCHANGED <<now, adds, add_log, dedupVars, workerVars, routeVars>>

\* clear, lines 52-53: the entry of chat_id is deleted when there is one
ClearAll(cs, c) == [d \in Convs |-> NoCtx]

Clear(cs, c) == IF cs[c] # NoCtx THEN [cs EXCEPT ![c] = NoCtx] ELSE cs

\* clear, lines 50-53
SeqClear(c) ==
    /\ conversations' = Clear(conversations, c)
    /\ add_log' = [add_log EXCEPT ![c] = <<>>]
    /\ last_read' = [NoRead EXCEPT !.cleared = c]
    /\ UNCHANGED <<now, adds, dedupVars, workerVars, routeVars>>

\* Time passes.  One unit of the clock is a large part of ttl_seconds (half an
\* hour when ttl_seconds is 3600 and modelled as 2), far longer than a worker
\* needs for one event, so the clock advances only between events, while
\* every worker is idle.
Tick ==
    /\ now < MaxTime
    /\ \A w \in PoolWorkers : wpc[w] = "idle"
    /\ now' = now + 1
    /\ last_read' = NoRead
    /\ UNCHANGED <<conversations, adds, add_log, dedupVars, workerVars, routeVars>>

MemSeqNext ==
    \/ \E c \in Convs, x \in Contents : SeqAddUser(c, x)
    \/ \E c \in Convs, x \in Contents : SeqAddAssistant(c, x)
    \/ \E c \in Convs : SeqGetHistory(c)
    \/ \E c \in Convs : SeqClear(c)
    \/ SeqChangeReturned
    \/ Tick

(***************************************************************************)
(* MemSpec: the conversational path of _process_message_worker,            *)
(* feishu_ws.py:314-327, run by several pool workers at once.              *)
(* ConversationMemory takes no lock, so another worker can run between the *)
(* statements of its methods; the steps below are cut where a method tests *)
(* the dict and then uses it (a coarser cut than the interpreter's, which  *)
(* can switch threads between any two bytecodes).                          *)
(***************************************************************************)
\* _call_llm's fallback text (line 522) and a generated answer (line 519)
Busy == "busy"

Answer == "answer"

\* the content of the turn the worker is about to add (lines 319, 325)
TurnContent(w) == IF wphase[w] = "user" THEN wtext[w] ELSE wreply[w]

\* an exception inside _call_llm's try block ends in the fallback text
\* (lines 520-522); the worker goes on to add_assistant_message (line 325)
LlmFallback(w, why) ==
    /\ wfail' = [wfail EXCEPT ![w] = why]
    /\ wreply' = [wreply EXCEPT ![w] = Busy]
    /\ wphase' = [wphase EXCEPT ![w] = "assistant"]
    /\ wexpired' = [wexpired EXCEPT ![w] = {}]
    /\ whist' = [whist EXCEPT ![w] = <<>>]
    /\ wnow' = [wnow EXCEPT ![w] = 0]
    /\ wpc' = [wpc EXCEPT ![w] = "ensure"]

\* the worker is back in the pool: its locals are gone
EndEvent(w) ==
    /\ wpc' = [wpc EXCEPT ![w] = "idle"]
    /\ wphase' = [wphase EXCEPT ![w] = "user"]
    /\ wchat' = [wchat EXCEPT ![w] = "none"]
    /\ wtext' = [wtext EXCEPT ![w] = "none"]
    /\ wreply' = [wreply EXCEPT ![w] = "none"]

\* lines 316-319: an event with chat_id c and text x reaches the
\* conversational path and calls add_user_message
BeginEvent(w, c, x) ==
    /\ wpc[w] = "idle"
    /\ events < MaxEvents
    /\ events' = events + 1
    /\ wpc' = [wpc EXCEPT ![w] = "ensure"]
    /\ wphase' = [wphase EXCEPT ![w] = "user"]
    /\ wchat' = [wchat EXCEPT ![w] = c]
    /\ wtext' = [wtext EXCEPT ![w] = x]
    /\ wfail' = [wfail EXCEPT ![w] = "none"]
    /\ UNCHANGED <<wexpired, wnow, whist, wreply, memVars, seqVars, dedupVars, routeVars>>

\* _ensure_context, line 57: the test "chat_id not in self._conversations"
EnsureCheck(w) ==
    /\ wpc[w] = "ensure"
    /\ wpc' = [wpc EXCEPT ![w] =
                  IF conversations[wchat[w]] = NoCtx THEN "create" ELSE "add"]
    /\ UNCHANGED <<wphase, wchat, wtext, wexpired, wnow, whist, wreply, wfail,
                   events, memVars, seqVars, dedupVars, routeVars>>

\* _ensure_context, lines 58-60: the assignment of a new context (it replaces
\* whatever the dict holds for the id by now)
EnsureCreate(w) ==
    /\ wpc[w] = "create"
    /\ conversations' = [conversations EXCEPT ![wchat[w]] = NewContext(now)]
    /\ wpc' = [wpc EXCEPT ![w] = "add"]
    /\ UNCHANGED <<now, wphase, wchat, wtext, wexpired, wnow, whist, wreply, wfail,
                   events, seqVars, dedupVars, routeVars>>

\* lines 43 / 48: self._conversations[chat_id].add_message(role, content).
\* The subscript raises KeyError when the entry is gone.  In add_user_message
\* the exception leaves the conversational path (line 329); in
\* add_assistant_message the handler of line 329 still replies.
AddTurn(w) ==
    /\ wpc[w] = "add"
    /\ IF conversations[wchat[w]] = NoCtx
       THEN /\ wfail' = [wfail EXCEPT ![w] = "KeyError in add"]
            /\ IF wphase[w] = "user"
               THEN EndEvent(w)
               ELSE /\ wpc' = [wpc EXCEPT ![w] = "reply"]
                    /\ UNCHANGED <<wphase, wchat, wtext, wreply>>
            /\ UNCHANGED conversations
       ELSE /\ conversations' =
                  [conversations EXCEPT ![wchat[w]] =
                      AddMessage(@, wphase[w], TurnContent(w), now)]
            /\ wpc' = [wpc EXCEPT ![w] =
                          IF wphase[w] = "user" THEN "scan" ELSE "reply"]
            /\ UNCHANGED <<wfail, wphase, wchat, wtext, wreply>>
    /\ UNCHANGED <<now, wexpired, wnow, whist, events, seqVars, dedupVars, routeVars>>

\* _call_llm line 500 -> get_history line 33 -> _cleanup_expired lines 64-68:
\* read the clock and collect the expired ids
CleanupScan(w) ==
    /\ wpc[w] = "scan"
    /\ wnow' = [wnow EXCEPT ![w] = now]
    /\ wexpired' = [wexpired EXCEPT ![w] = ExpiredIds(conversations, now)]
    /\ wpc' = [wpc EXCEPT ![w] =
                  IF ExpiredIds(conversations, now) = {} THEN "test" ELSE "del"]
    /\ UNCHANGED <<wphase, wchat, wtext, whist, wreply, wfail, events, memVars,
                   seqVars, dedupVars, routeVars>>

\* _cleanup_expired lines 69-70: del self._conversations[cid] for one collected
\* id; KeyError when another worker has removed it meanwhile
CleanupDel(w) ==
    /\ wpc[w] = "del"
    /\ \E c \in wexpired[w] :
          IF conversations[c] = NoCtx
          THEN /\ LlmFallback(w, "KeyError in del")
               /\ UNCHANGED conversations
          ELSE /\ conversations' = [conversations EXCEPT ![c] = NoCtx]
               /\ wexpired' = [wexpired EXCEPT ![w] = @ \ {c}]
               /\ wpc' = [wpc EXCEPT ![w] =
                             IF wexpired[w] = {c} THEN "test" ELSE "del"]
               /\ UNCHANGED <<wphase, wreply, wfail, wnow, whist>>
    /\ UNCHANGED <<now, wchat, wtext, events, seqVars, dedupVars, routeVars>>

\* get_history lines 35-36: the membership test; an unknown id returns []
HistTest(w) ==
    /\ wpc[w] = "test"
    /\ wpc' = [wpc EXCEPT ![w] =
                  IF conversations[wchat[w]] = NoCtx THEN "llm" ELSE "read"]
    /\ whist' = [whist EXCEPT ![w] = <<>>]
    /\ UNCHANGED <<wphase, wchat, wtext, wexpired, wnow, wreply, wfail, events,
                   memVars, seqVars, dedupVars, routeVars>>

\* get_history line 38: self._conversations[chat_id].get_messages()
HistRead(w) ==
    /\ wpc[w] = "read"
    /\ IF conversations[wchat[w]] = NoCtx
       THEN LlmFallback(w, "KeyError in read")
       ELSE /\ whist' = [whist EXCEPT ![w] = GetMessages(conversations[wchat[w]])]
            /\ wpc' = [wpc EXCEPT ![w] = "llm"]
            /\ UNCHANGED <<wphase, wexpired, wreply, wfail, wnow>>
    /\ UNCHANGED <<wchat, wtext, events, memVars, seqVars, dedupVars, routeVars>>

\* _call_llm lines 509-522: the history is handed to the generation
\* collaborator, which answers or fails; then line 325 follows
CallLLM(w) ==
    /\ wpc[w] = "llm"
    /\ \E r \in {Answer, Busy} : wreply' = [wreply EXCEPT ![w] = r]
    /\ wphase' = [wphase EXCEPT ![w] = "assistant"]
    /\ wpc' = [wpc EXCEPT ![w] = "ensure"]
    /\ whist' = [whist EXCEPT ![w] = <<>>]
    /\ wnow' = [wnow EXCEPT ![w] = 0]
    /\ UNCHANGED <<wchat, wtext, wexpired, wfail, events, memVars, seqVars,
                   dedupVars, routeVars>>

\* line 327 (or 330): self._reply_text(data, reply_text); the event ends
Reply(w) ==
    /\ wpc[w] = "reply"
    /\ EndEvent(w)
    /\ UNCHANGED <<wexpired, wnow, whist, wfail, events, memVars, seqVars,
                   dedupVars, routeVars>>

MemNext ==
    \/ \E w \in PoolWorkers, c \in Convs, x \in Contents : BeginEvent(w, c, x)
    \/ \E w \in PoolWorkers : EnsureCheck(w)
    \/ \E w \in PoolWorkers : EnsureCreate(w)
    \/ \E w \in PoolWorkers : AddTurn(w)
    \/ \E w \in PoolWorkers : CleanupScan(w)
    \/ \E w \in PoolWorkers : CleanupDel(w)
    \/ \E w \in PoolWorkers : HistTest(w)
    \/ \E w \in PoolWorkers : HistRead(w)
    \/ \E w \in PoolWorkers : CallLLM(w)
    \/ \E w \in PoolWorkers : Reply(w)
    \/ Tick

(***************************************************************************)
(* RouteSpec: start() and _process_message_worker, feishu_ws.py:110-167    *)
(* and 189-335, with _handle_image_message (340-376),                      *)
(* _handle_deep_analysis (424-483), _call_llm (485-522) and _reply_text    *)
(* (524-558).                                                              *)
(*                                                                         *)
(* A text is the sequence of its tokens: a token is a blank, a mention     *)
(* key, a command word or a letter, and the text is their concatenation.   *)
(***************************************************************************)
Space == " "

\* open_id values: the bot's own account, the user who writes, a third party
BotOpenId == "ou_bot"

UserOpenId == "ou_user"

OtherOpenId == "ou_other"

\* self.bot_info = None (line 96)
NoBot == [open_id |-> "None"]

\* line 147: the object built from info_data["bot"]
Identity == [open_id |-> BotOpenId]

\* reply_text before line 322 has assigned it
Unbound == <<"unbound">>

NoProject == "None"

\* one entry of event.message.mentions
Mention(key, id) == [key |-> key, open_id |-> id]

MentionLists ==
    { <<>>,
      <<Mention("@_user_1", BotOpenId)>>,
      <<Mention("@_user_1", OtherOpenId)>>,
      <<Mention("@_user_1", OtherOpenId), Mention("@_user_2", BotOpenId)>> }

\* the "text" field of a text message's content
Texts ==
    { <<>>,
      <<Space>>,
      <<"h">>,
      <<"h", "i">>,
      <<"@_user_1">>,
      <<"@_user_1", Space, "h">>,
      <<"@_user_1", Space, "h", "i">>,
      <<"@_user_1", Space, "@_user_2", Space, "h", "i">>,
      <<"/ping">>,
      <<Space, "/ping", Space>>,
      <<"@_user_1", Space, "/ping">>,
      <<"/ping", "x">>,
      <<"/help">>,
      <<"/deep">>,
      <<"/deep", Space, "x">>,
      <<"/deep", Space, "a/b">>,
      <<"/deep", "x">>,
      <<"@_user_1", Space, "/deep", Space, "x">> }

\* event.message.content that json.loads rejects
BadJson == [json |-> FALSE, text |-> <<>>, image_key |-> "None", blocks |-> <<>>]

\* {"text": x}
TextContent(x) == [json |-> TRUE, text |-> x, image_key |-> "None", blocks |-> <<>>]

\* {"image_key": k}
ImageContent(k) == [json |-> TRUE, text |-> <<>>, image_key |-> k, blocks |-> <<>>]

\* {"title": ..., "content": [[item, ...], ...]}
PostContent(bs) == [json |-> TRUE, text |-> <<>>, image_key |-> "None", blocks |-> bs]

TextItem(x) == [tag |-> "text", text |-> x, image_key |-> "None"]

ImgItem(k) == [tag |-> "img", text |-> <<>>, image_key |-> k]

PostBlocks ==
    { <<>>,
      << <<TextItem(<<"h">>), TextItem(<<"i">>)>> >>,
      << <<TextItem(<<"/ping">>)>> >>,
      << <<TextItem(<<"h">>)>>, <<ImgItem("img_1"), TextItem(<<"i">>)>> >>,
      << <<ImgItem("img_1")>> >> }

ContentsOf(msg_type) ==
    IF msg_type = "text" THEN {BadJson} \cup {TextContent(x) : x \in Texts}
    ELSE IF msg_type = "image"
         THEN {BadJson, ImageContent("img_1"), ImageContent("None")}
         ELSE {BadJson} \cup {PostContent(bs) : bs \in PostBlocks}

MsgTypes == {"text", "image", "post"}

\* a chat is a direct chat or a group chat
ChatTypeOf(c) == IF c = "c1" THEN "p2p" ELSE "group"

\* event.message.create_time, in milliseconds
CreateTimes == {1000}

\* datetime.now().timestamp() at line 200, in milliseconds: the event is 0 s,
\* exactly StaleSeconds, or StaleSeconds and one millisecond old
ClockReadings == {1000, 1000 + StaleSeconds * 1000, 1001 + StaleSeconds * 1000}

\* the keys that stand for mentions in a text, and the keys of a mention list
MentionKeys == {"@_user_1", "@_user_2"}

KeysIn(text) == {text[i] : i \in 1..Len(text)} \cap MentionKeys

KeysOf(ms) == {ms[i].key : i \in 1..Len(ms)}

\* the events the platform delivers (P2ImMessageReceiveV1.event); the platform
\* puts a key into the text only for a mention it lists
RouteEvents ==
    UNION { { [chat_id |-> c, chat_type |-> ChatTypeOf(c), sender |-> s,
               mentions |-> km[2], msg_type |-> km[1], content |-> x,
               create_time |-> ct, message_id |-> m] :
                 m \in MsgIds, c \in Convs, s \in {BotOpenId, UserOpenId},
                 x \in {y \in ContentsOf(km[1]) : KeysIn(y.text) \subseteq KeysOf(km[2])},
                 ct \in CreateTimes } : km \in MsgTypes \X MentionLists }

NoEvent == [chat_id |-> "none", chat_type |-> "none", sender |-> "none",
            mentions |-> <<>>, msg_type |-> "none", content |-> BadJson,
            create_time |-> 0, message_id |-> "none"]

\* event.message.message_id of the n-th event handed to the worker: the
\* platform gives every message its own id
DeliveredIds == <<"m1", "m2", "m3", "m4">>

\* ---- str operations on texts
\* len(s)
CharLen(tok) ==
    CASE tok \in {Space, "h", "i", "x"} -> 1
      [] tok = "a/b" -> 3
      [] tok \in {"/ping", "/help", "/deep"} -> 5
      [] OTHER -> 8

RECURSIVE TextLen(_)
TextLen(s) == IF s = <<>> THEN 0 ELSE CharLen(Head(s)) + TextLen(Tail(s))

\* s.strip()
RECURSIVE LStrip(_)
LStrip(s) == IF s # <<>> /\ Head(s) = Space THEN LStrip(Tail(s)) ELSE s

RECURSIVE RStrip(_)
RStrip(s) ==
    IF s # <<>> /\ s[Len(s)] = Space THEN RStrip(SubSeq(s, 1, Len(s) - 1)) ELSE s

Strip(s) == RStrip(LStrip(s))

\* s.replace(key, "")
Replace(s, key) == SelectSeq(s, LAMBDA tok : tok # key)

\* s.startswith(word)
StartsWith(s, word) == s # <<>> /\ Head(s) = word

\* s.split(): the maximal runs of non-blank tokens
RECURSIVE FirstWord(_)
FirstWord(s) ==
    IF s = <<>> \/ Head(s) = Space THEN <<>>
    ELSE <<Head(s)>> \o FirstWord(Tail(s))

RECURSIVE Split(_)
Split(s) ==
    IF s = <<>> THEN <<>>
    ELSE IF Head(s) = Space THEN Split(Tail(s))
         ELSE LET w == FirstWord(s)
              IN  <<w>> \o Split(SubSeq(s, Len(w) + 1, Len(s)))

\* "/" in s
HasSlashNever(s) == FALSE

HasSlash(s) == \E i \in 1..Len(s) : s[i] \in {"a/b", "/ping", "/help", "/deep"}

\* ---- the texts the bot sends
Greeting == <<"greeting">>

Pong == <<"Pong!">>

HelpText == <<"help">>

BusyText == <<Busy>>

AnswerText == <<Answer>>

\* what RouteSpec leaves alone
routeFrame == <<dedupVars, seqVars, workerVars, now>>

\* ---- start(), lines 110-167
\* lines 112-116: without app_id or app_secret start() returns at once
StartCall(configured) ==
    /\ spc = "new"
    /\ spc' = IF configured THEN "token" ELSE "unconfigured"
    /\ UNCHANGED <<bot_info, rpc, ev, age_ms, user_text, reply_text, image_key,
                   caption, project, replies, calls, mem_before, routed, ending,
                   logged, routed_events, conversations, routeFrame>>

\* lines 119-134: the tenant access token request; a code other than 0
\* returns, an exception returns through line 150
StartToken(r) ==
    /\ spc = "token"
    /\ spc' = IF r = "ok" THEN "info" ELSE "auth_failed"
    /\ UNCHANGED <<bot_info, rpc, ev, age_ms, user_text, reply_text, image_key,
                   caption, project, replies, calls, mem_before, routed, ending,
                   logged, routed_events, conversations, routeFrame>>

\* lines 136-152: the bot info request.  "partial": the answer has code 0 but
\* its "bot" object lacks app_name, so line 147 assigns bot_info and the print
\* of line 148 raises; start() returns through line 150.
AfterInfoAlways(r) == "register"

AfterInfo(r) == IF r = "ok" THEN "register" ELSE "identity_failed"

StartInfo(r) ==
    /\ spc = "info"
    /\ bot_info' = IF r \in {"ok", "partial"} THEN Identity ELSE bot_info
    /\ spc' = AfterInfo(r)
    /\ UNCHANGED <<rpc, ev, age_ms, user_text, reply_text, image_key,
                   caption, project, replies, calls, mem_before, routed, ending,
                   logged, routed_events, conversations, routeFrame>>

\* lines 154-167: the handler is registered and the WebSocket client started
StartServe ==
    /\ spc = "register"
    /\ spc' = "serving"
    /\ UNCHANGED <<bot_info, rpc, ev, age_ms, user_text, reply_text, image_key,
                   caption, project, replies, calls, mem_before, routed, ending,
                   logged, routed_events, conversations, routeFrame>>

\* ---- _reply_text, lines 524-558
\* lines 533-550: in a group the text is prefixed with an @-mention of the
\* sender; the request is handed to client.im.v1.message.reply, which succeeds
\* or not (a failure and an exception are both only printed, lines 552-558)
ReplyAttemptAlwaysAt(e, text, ok) ==
    [to |-> e.message_id, at |-> e.sender, text |-> text, ok |-> ok]

ReplyAttemptToFirst(e, text, ok) ==
    [to |-> DeliveredIds[1],
     at |-> IF e.chat_type = "group" THEN e.sender ELSE "none",
     text |-> text, ok |-> ok]

ReplyAttempt(e, text, ok) ==
    [to |-> e.message_id,
     at |-> IF e.chat_type = "group" THEN e.sender ELSE "none",
     text |-> text, ok |-> ok]

SayRetrying(text, ok) ==
    /\ replies' = replies \o (IF ok THEN <<ReplyAttempt(ev, text, ok)>>
                              ELSE <<ReplyAttempt(ev, text, ok),
                                     ReplyAttempt(ev, text, ok)>>)
    /\ logged' = (logged \/ ~ok)

Say(text, ok) ==
    /\ replies' = Append(replies, ReplyAttempt(ev, text, ok))
    /\ logged' = (logged \/ ~ok)

\* lines 441, 451 and 483: the reply that tells of a failed lookup or report
SayFailureSilent(text, ok) == UNCHANGED <<replies, logged>>

SayFailure(text, ok) == Say(text, ok)

\* the state the event ends in when the worker returns normally
Outcome(rs) ==
    IF rs = <<>> THEN "discarded"
    ELSE IF rs[Len(rs)].ok THEN "reply_sent" ELSE "reply_failed"

Ends ==
    /\ rpc' = "done"
    /\ ending' = Outcome(replies')

\* ---- _process_message_worker, lines 189-335
\* the executor runs the worker on an event the handler submitted (line 187);
\* the handler is registered only by start() (line 156)
Pickup(e) ==
    /\ spc = "serving"
    /\ rpc = "idle"
    /\ routed_events < MaxRouted
    /\ routed_events' = routed_events + 1
    /\ e.message_id = DeliveredIds[routed_events + 1]
    /\ ev' = e
    /\ mem_before' = conversations
    /\ rpc' = "stale"
    /\ UNCHANGED <<spc, bot_info, age_ms, user_text, reply_text, image_key,
                   caption, project, replies, calls, routed, ending,
                   logged, conversations, routeFrame>>

\* line 202: age_seconds > 60
IsStaleAtLimit(age) == age >= StaleSeconds * 1000

IsStale(age) == age > StaleSeconds * 1000

\* lines 196-206: t is the clock reading of line 200
StaleGate(t) ==
    /\ rpc = "stale"
    /\ age_ms' = t - ev.create_time
    /\ IF IsStale(age_ms')
       THEN /\ UNCHANGED <<replies, logged>>
            /\ Ends
       ELSE /\ rpc' = "self"
            /\ UNCHANGED <<replies, logged, ending>>
    /\ UNCHANGED <<spc, bot_info, ev, user_text, reply_text, image_key,
                   caption, project, calls, mem_before, routed,
                   routed_events, conversations, routeFrame>>

\* line 215: self.bot_info and sender_id == self.bot_info.open_id
IsSelfInDirectChat(b, e) == b # NoBot /\ e.sender = b.open_id /\ e.chat_type = "p2p"

IsSelf(b, e) == b # NoBot /\ e.sender = b.open_id

\* lines 212-217 (age_seconds is not read after line 203)
SelfGate ==
    /\ rpc = "self"
    /\ age_ms' = 0
    /\ IF IsSelf(bot_info, ev)
       THEN /\ UNCHANGED <<replies, logged>>
            /\ Ends
       ELSE /\ rpc' = "extract"
            /\ UNCHANGED <<replies, logged, ending>>
    /\ UNCHANGED <<spc, bot_info, ev, user_text, reply_text, image_key,
                   caption, project, calls, mem_before, routed,
                   routed_events, conversations, routeFrame>>

\* lines 225-229: the "text" field of the content, stripped; "" when the
\* content does not parse
JsonText(content) == IF content.json THEN Strip(content.text) ELSE <<>>

\* lines 221-229
ExtractText ==
    /\ rpc = "extract"
    /\ user_text' = JsonText(ev.content)
    /\ rpc' = "mention"
    /\ UNCHANGED <<spc, bot_info, ev, age_ms, reply_text, image_key,
                   caption, project, replies, calls, mem_before, routed, ending,
                   logged, routed_events, conversations, routeFrame>>

\* line 239: self.bot_info and mention.id.open_id == self.bot_info.open_id
TargetsBotAny(b, m) == b # NoBot

TargetsBot(b, m) == b # NoBot /\ m.open_id = b.open_id

\* lines 237-240: mentioned_me after the loop
MentionedMe(b, ms) == \E i \in 1..Len(ms) : TargetsBot(b, ms[i])

\* lines 238-243: user_text after the loop
RECURSIVE CleanMentions(_, _, _)
CleanMentions(b, ms, text) ==
    IF ms = <<>> THEN text
    ELSE CleanMentions(b, Tail(ms),
            IF TargetsBot(b, Head(ms)) /\ text # <<>>
            THEN Strip(Replace(text, Head(ms).key))
            ELSE text)

\* lines 231-234 and 245-247: a group message without mentions, or with
\* mentions none of which is the bot's, is ignored
MentionDropOthersOnly(b, e) ==
    e.chat_type = "group" /\ e.mentions # <<>> /\ ~MentionedMe(b, e.mentions)

MentionDrop(b, e) ==
    e.chat_type = "group" /\ (e.mentions = <<>> \/ ~MentionedMe(b, e.mentions))

\* lines 231-247
MentionGate ==
    /\ rpc = "mention"
    /\ IF MentionDrop(bot_info, ev)
       THEN /\ UNCHANGED <<replies, logged, user_text>>
            /\ Ends
       ELSE /\ user_text' = IF ev.chat_type = "group"
                            THEN CleanMentions(bot_info, ev.mentions, user_text)
                            ELSE user_text
            /\ rpc' = "kind"
            /\ UNCHANGED <<replies, logged, ending>>
    /\ UNCHANGED <<spc, bot_info, ev, age_ms, reply_text, image_key,
                   caption, project, calls, mem_before, routed,
                   routed_events, conversations, routeFrame>>

\* lines 271-278: the image key of the last img item and the concatenated
\* text items of a post
RECURSIVE ItemsOf(_)
ItemsOf(blocks) ==
    IF blocks = <<>> THEN <<>> ELSE Head(blocks) \o ItemsOf(Tail(blocks))

RECURSIVE PostImageKey(_, _)
PostImageKey(items, key) ==
    IF items = <<>> THEN key
    ELSE PostImageKey(Tail(items),
            IF Head(items).tag = "img" THEN Head(items).image_key ELSE key)

RECURSIVE PostCaption(_)
PostCaption(items) ==
    IF items = <<>> THEN <<>>
    ELSE (IF Head(items).tag = "text" THEN Head(items).text ELSE <<>>)
         \o PostCaption(Tail(items))

\* lines 263-265: a pure image message
KindImage ==
    /\ rpc = "kind"
    /\ ev.msg_type = "image"
    /\ image_key' = "None"
    /\ caption' = <<>>
    /\ routed' = "image"
    /\ rpc' = "image"
    /\ UNCHANGED <<spc, bot_info, ev, age_ms, user_text, reply_text,
                   project, replies, calls, mem_before, ending,
                   logged, routed_events, conversations, routeFrame>>

\* lines 268-282: a post; json.loads of line 269 raises on content that does
\* not parse, which leaves the try block of line 191
KindPost ==
    /\ rpc = "kind"
    /\ ev.msg_type = "post"
    /\ IF ~ev.content.json
       THEN /\ rpc' = "except"
            /\ UNCHANGED <<image_key, caption, routed>>
       ELSE LET items == ItemsOf(ev.content.blocks)
                key   == PostImageKey(items, "None")
            IN  IF key # "None"
                THEN /\ image_key' = key
                     /\ caption' = Strip(PostCaption(items))
                     /\ routed' = "image"
                     /\ rpc' = "image"
                ELSE /\ rpc' = "empty"
                     /\ UNCHANGED <<image_key, caption, routed>>
    /\ UNCHANGED <<spc, bot_info, ev, age_ms, user_text, reply_text,
                   project, replies, calls, mem_before, ending,
                   logged, routed_events, conversations, routeFrame>>

\* any other message type goes on to line 293
KindText ==
    /\ rpc = "kind"
    /\ ev.msg_type \notin {"image", "post"}
    /\ rpc' = "empty"
    /\ UNCHANGED <<spc, bot_info, ev, age_ms, user_text, reply_text, image_key,
                   caption, project, replies, calls, mem_before, routed, ending,
                   logged, routed_events, conversations, routeFrame>>

\* line 296: not user_text or len(user_text.strip()) < 2
IsEmptyContentBelow3(text) == text = <<>> \/ TextLen(Strip(text)) < 3

IsEmptyContentOnlyEmpty(text) == text = <<>>

IsEmptyContent(text) == text = <<>> \/ TextLen(Strip(text)) < 2

\* lines 295-298: the canned greeting
EmptyGuard(ok) ==
    /\ rpc = "empty"
    /\ IsEmptyContent(user_text)
    /\ Say(Greeting, ok)
    /\ routed' = "greeting"
    /\ Ends
    /\ UNCHANGED <<spc, bot_info, ev, age_ms, user_text, reply_text, image_key,
                   caption, project, calls, mem_before,
                   routed_events, conversations, routeFrame>>

EmptyGuardPassed ==
    /\ rpc = "empty"
    /\ ~IsEmptyContent(user_text)
    /\ rpc' = "commands"
    /\ UNCHANGED <<spc, bot_info, ev, age_ms, user_text, reply_text, image_key,
                   caption, project, replies, calls, mem_before, routed, ending,
                   logged, routed_events, conversations, routeFrame>>

\* line 301: user_text.startswith("/deep")
IsDeep(text) == StartsWith(text, "/deep")

\* line 305: user_text == "/ping"
IsPingPrefix(text) == StartsWith(text, "/ping")

IsPing(text) == text = <<"/ping">>

\* line 309: user_text == "/help"
IsHelp(text) == text = <<"/help">>

\* lines 301-303
CommandDeep ==
    /\ rpc = "commands"
    /\ IsDeep(user_text)
    /\ routed' = "deep"
    /\ rpc' = "deep"
    /\ UNCHANGED <<spc, bot_info, ev, age_ms, user_text, reply_text, image_key,
                   caption, project, replies, calls, mem_before, ending,
                   logged, routed_events, conversations, routeFrame>>

\* lines 305-307
CommandPingStored(ok) ==
    /\ rpc = "commands"
    /\ ~IsDeep(user_text)
    /\ IsPing(user_text)
    /\ calls' = Append(calls, "add_user_message")
    /\ conversations' =
          LET cs == EnsureContext(conversations, ev.chat_id, now)
          IN  [cs EXCEPT ![ev.chat_id] =
                  AddMessage(cs[ev.chat_id], "user", user_text, now)]
    /\ Say(Pong, ok)
    /\ routed' = "ping"
    /\ Ends
    /\ UNCHANGED <<spc, bot_info, ev, age_ms, user_text, reply_text, image_key,
                   caption, project, mem_before,
                   routed_events, routeFrame>>

CommandPing(ok) ==
    /\ rpc = "commands"
    /\ ~IsDeep(user_text)
    /\ IsPing(user_text)
    /\ Say(Pong, ok)
    /\ routed' = "ping"
    /\ Ends
    /\ UNCHANGED <<spc, bot_info, ev, age_ms, user_text, reply_text, image_key,
                   caption, project, calls, mem_before,
                   routed_events, conversations, routeFrame>>

\* lines 309-312
CommandHelp(ok) ==
    /\ rpc = "commands"
    /\ ~IsDeep(user_text)
    /\ ~IsPing(user_text)
    /\ IsHelp(user_text)
    /\ Say(HelpText, ok)
    /\ routed' = "help"
    /\ Ends
    /\ UNCHANGED <<spc, bot_info, ev, age_ms, user_text, reply_text, image_key,
                   caption, project, calls, mem_before,
                   routed_events, conversations, routeFrame>>

\* no command matched: the conversational path, line 314
CommandNone ==
    /\ rpc = "commands"
    /\ ~IsDeep(user_text)
    /\ ~IsPing(user_text)
    /\ ~IsHelp(user_text)
    /\ routed' = "chat"
    /\ rpc' = "add_user"
    /\ UNCHANGED <<spc, bot_info, ev, age_ms, user_text, reply_text, image_key,
                   caption, project, replies, calls, mem_before, ending,
                   logged, routed_events, conversations, routeFrame>>

\* ---- the conversational path, lines 314-327
\* lines 316-319: add_user_message.  The worker is one of the pool's workers
\* and ConversationMemory takes no lock: when the context exists at line 57,
\* the sweep of another worker can remove it before line 43, which then raises
\* KeyError (the interleaving MemSpec exhibits); "swept" is that case.
ChatAddUser(swept) ==
    /\ rpc = "add_user"
    /\ calls' = Append(calls, "add_user_message")
    /\ IF swept
       THEN /\ conversations[ev.chat_id] # NoCtx
            /\ conversations' = [conversations EXCEPT ![ev.chat_id] = NoCtx]
            /\ rpc' = "except"
       ELSE /\ conversations' =
                  LET cs == EnsureContext(conversations, ev.chat_id, now)
                  IN  [cs EXCEPT ![ev.chat_id] =
                          AddMessage(cs[ev.chat_id], "user", user_text, now)]
            /\ rpc' = "llm"
    /\ UNCHANGED <<spc, bot_info, ev, age_ms, user_text, reply_text, image_key,
                   caption, project, replies, mem_before, routed, ending,
                   logged, routed_events, routeFrame>>

\* _call_llm, lines 495-522: the generated text, or the fallback text when
\* anything inside the try block raised
LlmResultEmptyOnError(r) == IF r = "answer" THEN AnswerText ELSE <<>>

LlmResult(r) == IF r = "answer" THEN AnswerText ELSE BusyText

\* line 322: reply_text = self._call_llm(user_text, chat_id); line 500 reads
\* the history (sweep, then read), lines 513-518 call the generation
\* collaborator, which answers (r = "answer") or fails (timeout, server error,
\* malformed response)
ChatCallLLM(r) ==
    /\ rpc = "llm"
    /\ conversations' = CleanupExpired(conversations, now)
    /\ calls' = calls \o <<"get_history", "generation:" \o r>>
    /\ reply_text' = LlmResult(r)
    /\ rpc' = "add_assistant"
    /\ UNCHANGED <<spc, bot_info, ev, age_ms, user_text, image_key,
                   caption, project, replies, mem_before, routed, ending,
                   logged, routed_events, routeFrame>>

\* line 325: add_assistant_message; "swept" as in ChatAddUser
ChatAddAssistant(swept) ==
    /\ rpc = "add_assistant"
    /\ calls' = Append(calls, "add_assistant_message")
    /\ IF swept
       THEN /\ conversations[ev.chat_id] # NoCtx
            /\ conversations' = [conversations EXCEPT ![ev.chat_id] = NoCtx]
            /\ rpc' = "except"
       ELSE /\ conversations' =
                  LET cs == EnsureContext(conversations, ev.chat_id, now)
                  IN  [cs EXCEPT ![ev.chat_id] =
                          AddMessage(cs[ev.chat_id], "assistant", reply_text, now)]
            /\ rpc' = "reply"
    /\ UNCHANGED <<spc, bot_info, ev, age_ms, user_text, reply_text, image_key,
                   caption, project, replies, mem_before, routed, ending,
                   logged, routed_events, routeFrame>>

\* line 327
ChatReply(ok) ==
    /\ rpc = "reply"
    /\ Say(reply_text, ok)
    /\ Ends
    /\ UNCHANGED <<spc, bot_info, ev, age_ms, user_text, reply_text, image_key,
                   caption, project, calls, mem_before, routed,
                   routed_events, conversations, routeFrame>>

\* lines 329-335.  The try statement has two "except Exception" clauses; the
\* first one takes every exception, so the second (the one that prints) never
\* runs.  The first calls _reply_text(data, reply_text): before line 322 has
\* assigned reply_text this raises UnboundLocalError inside the handler, which
\* leaves _process_message_worker (the executor stores it in the task's
\* future, which nobody reads; nothing is printed).
ExceptHandler(ok) ==
    /\ rpc = "except"
    /\ IF reply_text = Unbound
       THEN /\ ending' = "escaped"
            /\ rpc' = "done"
            /\ UNCHANGED <<replies, logged>>
       ELSE /\ Say(reply_text, ok)
            /\ Ends
    /\ UNCHANGED <<spc, bot_info, ev, age_ms, user_text, reply_text, image_key,
                   caption, project, calls, mem_before, routed,
                   routed_events, conversations, routeFrame>>

\* ---- _handle_image_message, lines 340-376
\* lines 346-350: the key passed in, else the "image_key" of the content;
\* json.loads raises on content that does not parse
ImageKeyOfProvidedOnly(provided, content) == provided

ImageKeyOf(provided, content) ==
    IF provided # "None" THEN provided
    ELSE IF content.json THEN content.image_key ELSE "raise"

\* lines 342-359, and 374-376 for the exception of line 349
ImageBegin(ok) ==
    /\ rpc = "image"
    /\ LET key == ImageKeyOf(image_key, ev.content)
       IN  IF key = "raise"
           THEN /\ Say(<<"image: error">>, ok)
                /\ Ends
                /\ UNCHANGED image_key
           ELSE IF key = "None"
           THEN /\ Say(<<"image: no image info">>, ok)
                /\ Ends
                /\ UNCHANGED image_key
           ELSE /\ Say(<<"image: analyzing">>, ok)
                /\ image_key' = key
                /\ rpc' = "download"
                /\ UNCHANGED ending
    /\ UNCHANGED <<spc, bot_info, ev, age_ms, user_text, reply_text,
                   caption, project, calls, mem_before, routed,
                   routed_events, conversations, routeFrame>>

\* lines 363-366: _download_image returned None
ImageDownloadFails(ok) ==
    /\ rpc = "download"
    /\ calls' = Append(calls, "download_image")
    /\ Say(<<"image: download failed">>, ok)
    /\ Ends
    /\ UNCHANGED <<spc, bot_info, ev, age_ms, user_text, reply_text, image_key,
                   caption, project, mem_before, routed,
                   routed_events, conversations, routeFrame>>

\* line 363: _download_image returned the bytes
ImageDownloaded ==
    /\ rpc = "download"
    /\ calls' = Append(calls, "download_image")
    /\ rpc' = "vision"
    /\ UNCHANGED <<spc, bot_info, ev, age_ms, user_text, reply_text, image_key,
                   caption, project, replies, mem_before, routed, ending,
                   logged, routed_events, conversations, routeFrame>>

\* lines 368-372: analyze_image returns a text (its own failures included,
\* llm_analyzer.py:95-97), which is sent
ImageAnalyze(ok) ==
    /\ rpc = "vision"
    /\ calls' = Append(calls, "analyze_image")
    /\ Say(<<"image: analysis">>, ok)
    /\ Ends
    /\ UNCHANGED <<spc, bot_info, ev, age_ms, user_text, reply_text, image_key,
                   caption, project, mem_before, routed,
                   routed_events, conversations, routeFrame>>

\* ---- _handle_deep_analysis, lines 424-483
\* lines 427-432: parts = user_text.split(); repo_name = parts[1].strip()
HasArgument(text) == Len(Split(text)) >= 2

RepoName(text) == Split(text)[2]

\* lines 427-430: no argument
DeepNoArgument(ok) ==
    /\ rpc = "deep"
    /\ ~HasArgument(user_text)
    /\ Say(<<"deep: usage">>, ok)
    /\ Ends
    /\ UNCHANGED <<spc, bot_info, ev, age_ms, user_text, reply_text, image_key,
                   caption, project, calls, mem_before, routed,
                   routed_events, conversations, routeFrame>>

\* lines 436-437 and 445-447: the progress reply
DeepProgress(ok) ==
    /\ rpc = "deep"
    /\ HasArgument(user_text)
    /\ Say(IF HasSlash(RepoName(user_text)) THEN <<"deep: fetching">> ELSE <<"deep: searching">>, ok)
    /\ rpc' = "lookup"
    /\ UNCHANGED <<spc, bot_info, ev, age_ms, user_text, reply_text, image_key,
                   caption, project, calls, mem_before, routed, ending,
                   routed_events, conversations, routeFrame>>

\* lines 442 and 452: return after the failure reply of a lookup that found
\* nothing
AfterFailedLookupGoesOn == "report"

AfterFailedLookup == "done"

\* lines 438-442 and 448-452: the collaborator returned None
DeepLookupFails(ok) ==
    /\ rpc = "lookup"
    /\ IF HasSlash(RepoName(user_text))
       THEN /\ calls' = Append(calls, "fetch_project:None")
            /\ SayFailure(<<"deep: no such repository">>, ok)
       ELSE /\ calls' = Append(calls, "search_repository:None")
            /\ SayFailure(<<"deep: no project found">>, ok)
    /\ rpc' = AfterFailedLookup
    /\ ending' = IF rpc' = "done" THEN Outcome(replies') ELSE ending
    /\ UNCHANGED <<spc, bot_info, ev, age_ms, user_text, reply_text, image_key,
                   caption, project, mem_before, routed,
                   routed_events, conversations, routeFrame>>

\* lines 438-448: the collaborator returned a project; the search path says so.
\* (search_repository obtains the details of its top hit through the
\* collector's own fetch_project, collectors/github.py:182; that is a call of
\* the collaborator, not of this handler.)
DeepLookupFinds(ok) ==
    /\ rpc = "lookup"
    /\ IF HasSlash(RepoName(user_text))
       THEN /\ calls' = Append(calls, "fetch_project")
            /\ UNCHANGED <<replies, logged>>
       ELSE /\ calls' = Append(calls, "search_repository")
            /\ Say(<<"deep: found">>, ok)
    /\ project' = "project"
    /\ rpc' = "report"
    /\ UNCHANGED <<spc, bot_info, ev, age_ms, user_text, reply_text, image_key,
                   caption, mem_before, routed, ending,
                   routed_events, conversations, routeFrame>>

\* lines 455-483: the report is generated and sent, or the failure is said
DeepReportStep(generated, ok) ==
    /\ rpc = "report"
    /\ calls' = Append(calls, IF generated THEN "report_generation:answer"
                                         ELSE "report_generation:error")
    /\ IF generated THEN Say(<<"deep: report">>, ok) ELSE SayFailure(<<"deep: report failed">>, ok)
    /\ Ends
    /\ UNCHANGED <<spc, bot_info, ev, age_ms, user_text, reply_text, image_key,
                   caption, project, mem_before, routed,
                   routed_events, conversations, routeFrame>>

\* _process_message_worker is over: the worker is back in the pool and its
\* locals are gone
Finish ==
    /\ rpc = "done"
    /\ rpc' = "idle"
    /\ ev' = NoEvent
    /\ age_ms' = 0
    /\ user_text' = <<>>
    /\ reply_text' = Unbound
    /\ image_key' = "None"
    /\ caption' = <<>>
    /\ project' = NoProject
    /\ replies' = <<>>
    /\ calls' = <<>>
    /\ mem_before' = [c \in Convs |-> NoCtx]
    /\ routed' = "none"
    /\ ending' = "none"
    /\ logged' = FALSE
    /\ UNCHANGED <<spc, bot_info, routed_events, conversations, routeFrame>>

RouteNext ==
    \/ \E configured \in BOOLEAN : StartCall(configured)
    \/ \E r \in {"ok", "code", "raise"} : StartToken(r)
    \/ \E r \in {"ok", "code", "raise", "partial"} : StartInfo(r)
    \/ StartServe
    \/ \E e \in RouteEvents : Pickup(e)
    \/ \E t \in ClockReadings : StaleGate(t)
    \/ SelfGate
    \/ ExtractText
    \/ MentionGate
    \/ KindImage
    \/ KindPost
    \/ KindText
    \/ \E ok \in BOOLEAN : EmptyGuard(ok)
    \/ EmptyGuardPassed
    \/ CommandDeep
    \/ \E ok \in BOOLEAN : CommandPing(ok)
    \/ \E ok \in BOOLEAN : CommandHelp(ok)
    \/ CommandNone
    \/ \E swept \in BOOLEAN : ChatAddUser(swept)
    \/ \E r \in {"answer", "error"} : ChatCallLLM(r)
    \/ \E swept \in BOOLEAN : ChatAddAssistant(swept)
    \/ \E ok \in BOOLEAN : ChatReply(ok)
    \/ \E ok \in BOOLEAN : ExceptHandler(ok)
    \/ \E ok \in BOOLEAN : ImageBegin(ok)
    \/ \E ok \in BOOLEAN : ImageDownloadFails(ok)
    \/ ImageDownloaded
    \/ \E ok \in BOOLEAN : ImageAnalyze(ok)
    \/ \E ok \in BOOLEAN : DeepNoArgument(ok)
    \/ \E ok \in BOOLEAN : DeepProgress(ok)
    \/ \E ok \in BOOLEAN : DeepLookupFails(ok)
    \/ \E ok \in BOOLEAN : DeepLookupFinds(ok)
    \/ \E generated \in BOOLEAN, ok \in BOOLEAN : DeepReportStep(generated, ok)
    \/ Finish

Init ==
    /\ processed_messages = {}
    /\ lock = NoThread
    /\ work_queue = <<>>
    /\ running = [w \in Workers |-> NoMsg]
    /\ pc = [t \in Threads |-> "idle"]
    /\ msg = [t \in Threads |-> NoMsg]
    /\ deliveries = 0
    /\ raced = [t \in Threads |-> FALSE]
    /\ outcome = [t \in Threads |-> "none"]
    /\ answers = [m \in MsgIds |-> 0]
    /\ submitted = 0
    /\ insert_order = <<>>
    /\ last_evicted = {}
    /\ oldest_then = {}
    /\ taken = 0
    /\ conversations = [c \in Convs |-> NoCtx]
    /\ now = 0
    /\ adds = 0
    /\ add_log = [c \in Convs |-> <<>>]
    /\ last_read = NoRead
    /\ wpc = [w \in PoolWorkers |-> "idle"]
    /\ wphase = [w \in PoolWorkers |-> "user"]
    /\ wchat = [w \in PoolWorkers |-> "none"]
    /\ wtext = [w \in PoolWorkers |-> "none"]
    /\ wexpired = [w \in PoolWorkers |-> {}]
    /\ wnow = [w \in PoolWorkers |-> 0]
    /\ whist = [w \in PoolWorkers |-> <<>>]
    /\ wreply = [w \in PoolWorkers |-> "none"]
    /\ wfail = [w \in PoolWorkers |-> "none"]
    /\ events = 0
    /\ spc = "new"
    /\ bot_info = NoBot
    /\ rpc = "idle"
    /\ ev = NoEvent
    /\ age_ms = 0
    /\ user_text = <<>>
    /\ reply_text = Unbound
    /\ image_key = "None"
    /\ caption = <<>>
    /\ project = NoProject
    /\ replies = <<>>
    /\ calls = <<>>
    /\ mem_before = [c \in Convs |-> NoCtx]
    /\ routed = "none"
    /\ ending = "none"
    /\ logged = FALSE
    /\ routed_events = 0

Next ==
    \/ \E t \in Threads, m \in MsgIds : Deliver(t, m)
    \/ \E t \in Threads : Acquire(t)
    \/ \E t \in Threads : TestDuplicate(t)
    \/ \E t \in Threads : TestNew(t)
    \/ \E t \in Threads : Add(t)
    \/ \E t \in Threads : EvictBatch(t)
    \/ \E t \in Threads : EvictNone(t)
    \/ \E t \in Threads : SubmitTask(t)
    \/ \E w \in Workers : WorkerStart(w)
    \/ \E w \in Workers : WorkerFinish(w)

Spec == Init /\ [][Next]_vars

MemSeqSpec == Init /\ [][MemSeqNext]_vars

MemSpec == Init /\ [][MemNext]_vars

RouteSpec == Init /\ [][RouteNext]_vars

\* RouteSpec with a fair scheduler: start() and the worker are not suspended
\* for ever, and every collaborator call returns or fails (each such call is
\* one step of RouteNext).
RouteFairSpec == RouteSpec /\ WF_vars(RouteNext)

(***************************************************************************)
(* Claims about the dedup gate and the hand-off to the pool (under Spec)   *)
(***************************************************************************)

\* C1: while a message id m is in the dedup cache, the test-and-set has
\* answered 'not seen' for m exactly once since m was last absent (never a
\* second time before m is evicted), and a delivery goes past the membership
\* test only when m was not cached: every other delivery of m is a duplicate
\* that returns without submitting a worker task.
C1_DedupIdempotence ==
    /\ \A m \in MsgIds :
          /\ answers[m] <= 1
          /\ m \in processed_messages => answers[m] = 1
    /\ \A t \in Threads :
          /\ pc[t] = "add" => ~(msg[t] \in processed_messages)
          /\ outcome[t] = "duplicate" => ~(pc[t] \in {"add", "evict", "submit"})

\* A redelivery of a cached id has been absorbed while the id is still cached
\* and its first delivery has been submitted.
C1_Witness ==
    \E t \in Threads :
       /\ outcome[t] = "duplicate"
       /\ submitted >= 1
       /\ \E m \in processed_messages : answers[m] = 1

\* C2: of two concurrent _handle_message calls with the same message id, the
\* second made while the id was not cached and the first had not yet made its
\* membership test, at most one is told 'not seen' and goes on to submit a
\* worker task.
C2_ExactlyOneSubmits ==
    \A t1 \in Threads, t2 \in Threads :
       (/\ t1 # t2
        /\ msg[t1] # NoMsg
        /\ msg[t1] = msg[t2]
        /\ raced[t2])
       => ~(pc[t1] = "submit" /\ pc[t2] = "submit")

\* C3: whenever no call is inside the locked section the cache holds at most
\* max_cache_size ids; once a batch eviction has happened it holds at least
\* max_cache_size / 2 ids and is never empty.
C3_EvictionBound ==
    lock = NoThread =>
       /\ Cardinality(processed_messages) <= max_cache_size
       /\ last_evicted # {} =>
             /\ Cardinality(processed_messages) >= max_cache_size \div 2
             /\ Cardinality(processed_messages) > 0

\* The call that inserted the (C+1)-th id has evicted and left the section.
C3_Witness ==
    \E t \in Threads :
       /\ pc[t] = "submit"
       /\ lock = NoThread
       /\ last_evicted # {}
       /\ Cardinality(processed_messages) = max_cache_size + 1 - max_cache_size \div 2

\* C4: a batch eviction removes exactly the max_cache_size / 2 ids that were
\* inserted earliest among those cached.
C4_EvictsEarliestInserted == last_evicted = oldest_then

\* C10 (as claimed): the number of accepted events waiting for a worker never
\* exceeds a fixed queue capacity.
C10_BacklogBounded == Len(work_queue) <= QueueCapacity

\* C10 (amended): every event that passed the dedup gate and was handed to
\* executor.submit is on the queue or has been taken by a worker: none is
\* dropped, whatever the length of the queue.
C10_NoAcceptedEventDropped == submitted = Len(work_queue) + taken

\* All workers are busy and more events wait than the claimed capacity.
C10_Witness ==
    /\ \A w \in Workers : running[w] # NoMsg
    /\ Len(work_queue) > QueueCapacity
    /\ submitted = Len(work_queue) + taken

(***************************************************************************)
(* Claims about ConversationMemory called sequentially (under MemSeqSpec)  *)
(***************************************************************************)

\* C5: every stored turn sequence has at most max_history turns and is exactly
\* the last max_history turns added to that conversation since its context
\* was created, oldest first.
C5_HistoryBound ==
    \A c \in Convs :
       conversations[c] # NoCtx =>
          /\ Len(conversations[c].history) <= max_history
          /\ conversations[c].history = LastN(add_log[c], max_history)

\* More than max_history turns were added to one conversation.
C5_Witness ==
    \E c \in Convs :
       /\ conversations[c] # NoCtx
       /\ Len(add_log[c]) > max_history
       /\ Len(conversations[c].history) = max_history

\* C6: a get_history call for a conversation whose context was last written
\* more than ttl_seconds ago returns the empty sequence and leaves fewer
\* contexts in the store than before; a context whose age is at most
\* ttl_seconds (exactly ttl_seconds included) is kept and its turns returned.
C6_TTLExpiry ==
    /\ last_read.age > ttl_seconds => (last_read.empty /\ last_read.shrank)
    /\ (last_read.age >= 0 /\ last_read.age <= ttl_seconds) =>
          (last_read.kept /\ last_read.same /\ ~last_read.empty)

\* get_history has just been called for a conversation idle for more than
\* ttl_seconds.
C6_Witness ==
    /\ last_read.age > ttl_seconds
    /\ last_read.empty
    /\ last_read.shrank
    /\ conversations[last_read.chat] = NoCtx

(***************************************************************************)
(* Claims about the conversational path run by pool workers (under MemSpec)*)
(***************************************************************************)

\* C7: the history a worker hands to the generation collaborator holds at
\* most max_history turns, and each of them was added no more than
\* ttl_seconds before the read (the clock value get_history's sweep used).
C7_HistoryWithinTTL ==
    \A w \in PoolWorkers :
       wpc[w] = "llm" =>
          /\ Len(whist[w]) <= max_history
          /\ \A i \in 1..Len(whist[w]) : wnow[w] - whist[w][i].at <= ttl_seconds

\* C8: when two workers have both completed add_user_message on the same
\* chat_id with distinct texts (and nothing else has run since), both user
\* turns are in the stored history, which holds at most max_history turns.
C8_BothTurnsPresent ==
    \A w1 \in PoolWorkers, w2 \in PoolWorkers :
       (/\ w1 # w2
        /\ wpc[w1] = "scan"
        /\ wpc[w2] = "scan"
        /\ wchat[w1] = wchat[w2]
        /\ wtext[w1] # wtext[w2])
       => LET h == conversations[wchat[w1]].history
          IN  /\ Len(h) <= max_history
              /\ \E i \in 1..Len(h) : h[i].role = "user" /\ h[i].content = wtext[w1]
              /\ \E i \in 1..Len(h) : h[i].role = "user" /\ h[i].content = wtext[w2]

\* C9: no ConversationMemory call of a worker fails because another worker
\* changed the store between the call's test of the dict and its use of it.
C9_MemoryOpsAtomic == \A w \in PoolWorkers : wfail[w] = "none"

(***************************************************************************)
(* Claims about start() and the gates, commands and handlers of            *)
(* _process_message_worker (under RouteSpec)                               *)
(***************************************************************************)

\* the event in progress has passed the staleness gate (a stale event keeps
\* its age until the worker is done with it)
PassedStaleGate == rpc \notin {"idle", "stale"} /\ age_ms <= StaleSeconds * 1000

\* nothing was done for the event in progress: no reply attempt, no
\* collaborator or memory call, no handler reached, memory as at pick-up
Untouched ==
    /\ replies = <<>>
    /\ calls = <<>>
    /\ routed = "none"
    /\ conversations = mem_before

\* some conversation had stored turns when the event was picked up
MemoryInUse == \E c \in Convs : mem_before[c] # NoCtx

\* C11: while and after a worker processes a group-chat event whose mention
\* list is empty, whatever its text and message type, no reply is attempted,
\* no collaborator or memory call is made, no handler (command, greeting,
\* image, conversational path) is reached and Conversation Memory is as it was
\* when the event was picked up; the event ends discarded, at the mention gate
\* at the latest.
C11_NoMentionNoEffect ==
    (rpc # "idle" /\ ev.chat_type = "group" /\ ev.mentions = <<>>) =>
       /\ Untouched
       /\ rpc \in {"stale", "self", "extract", "mention", "done"}
       /\ rpc = "done" => ending = "discarded"

\* A fresh group event "/ping" of a user, without mentions, has been dropped
\* at the mention gate while memory held turns.
C11_Witness ==
    /\ rpc = "done"
    /\ ev.chat_type = "group"
    /\ ev.mentions = <<>>
    /\ ev.sender = UserOpenId
    /\ PassedStaleGate
    /\ user_text = <<"/ping">>
    /\ ending = "discarded"
    /\ MemoryInUse

\* C12: with the bot identity resolved, an event whose sender open_id is the
\* bot's open_id gets no reply, no collaborator or memory call and no memory
\* change, in a direct chat and in a group, whether or not its mentions target
\* the bot; it ends discarded at the self-echo gate at the latest.
C12_SelfEchoDropped ==
    (rpc # "idle" /\ bot_info # NoBot /\ ev.sender = bot_info.open_id) =>
       /\ Untouched
       /\ rpc \in {"stale", "self", "done"}
       /\ rpc = "done" => ending = "discarded"

\* A fresh group event sent by the bot itself, whose mention targets the bot,
\* has been dropped.
C12_Witness ==
    /\ rpc = "done"
    /\ ev.sender = BotOpenId
    /\ bot_info = Identity
    /\ PassedStaleGate
    /\ ev.chat_type = "group"
    /\ MentionedMe(bot_info, ev.mentions)
    /\ ending = "discarded"
    /\ MemoryInUse

\* C13: an event whose age at line 201 is more than 60 seconds ends discarded
\* with nothing done for it (no reply, no handler, no collaborator or memory
\* call, memory unchanged), whatever its content; an event aged exactly 60
\* seconds goes on to the self-echo gate.
C13_StaleDropped ==
    /\ (rpc \notin {"idle", "stale"} /\ age_ms > StaleSeconds * 1000) =>
          /\ rpc = "done"
          /\ ending = "discarded"
          /\ Untouched
    /\ age_ms = StaleSeconds * 1000 => rpc = "self"

\* A direct-chat "/ping" of a user that was 60.001 seconds old has been
\* dropped without a pong.
C13_Witness ==
    /\ rpc = "done"
    /\ age_ms = StaleSeconds * 1000 + 1
    /\ ev.chat_type = "p2p"
    /\ ev.sender = UserOpenId
    /\ ev.content = TextContent(<<"/ping">>)
    /\ replies = <<>>
    /\ MemoryInUse

\* C14: a fresh direct-chat text event of a user whose text is "/ping" ends
\* with exactly one reply attempt, whose text is the pong text without an
\* addressee prefix, with no collaborator or memory call, and with
\* Conversation Memory as it was when the event was picked up.
C14_PingPong ==
    (/\ rpc = "done"
     /\ PassedStaleGate
     /\ ev.sender # bot_info.open_id
     /\ ev.chat_type = "p2p"
     /\ ev.msg_type = "text"
     /\ ev.content.json
     /\ Strip(ev.content.text) = <<"/ping">>)
    => /\ Len(replies) = 1
       /\ replies[1].text = Pong
       /\ replies[1].at = "none"
       /\ calls = <<>>
       /\ conversations = mem_before

\* The pong has been sent for a direct-chat "/ping" while memory held turns.
C14_Witness ==
    /\ rpc = "done"
    /\ routed = "ping"
    /\ ev.chat_type = "p2p"
    /\ ev.content = TextContent(<<"/ping">>)
    /\ replies = <<ReplyAttempt(ev, Pong, TRUE)>>
    /\ MemoryInUse

\* the event of Scenario C: a fresh group text "<mention> hi" of a user, the
\* mention targeting the bot
IsMentionHi ==
    /\ PassedStaleGate
    /\ ev.sender = UserOpenId
    /\ ev.chat_type = "group"
    /\ ev.msg_type = "text"
    /\ ev.mentions = <<Mention("@_user_1", BotOpenId)>>
    /\ ev.content = TextContent(<<"@_user_1", Space, "h", "i">>)

\* C15 (as claimed): the group event "<mention> hi" targeting the bot
\* triggers the empty-content guard and is answered with the canned greeting
\* without entering the command router or the conversational path.
C15_MentionHiGreeted ==
    (rpc = "done" /\ IsMentionHi) =>
       /\ routed = "greeting"
       /\ Len(replies) = 1
       /\ replies[1].text = Greeting

\* C15 (amended): the mention token of the group event "<mention> hi" is
\* stripped, leaving "hi"; its length is 2, which does not trigger the
\* empty-content guard (length < 2): the event passes the command router
\* unmatched and enters the conversational path, add_user_message being its
\* first call, and no greeting is sent.
C15_MentionHiConversational ==
    (rpc = "done" /\ IsMentionHi) =>
       /\ user_text = <<"h", "i">>
       /\ TextLen(user_text) = 2
       /\ routed = "chat"
       /\ calls # <<>>
       /\ calls[1] = "add_user_message"
       /\ \A i \in 1..Len(replies) : replies[i].text # Greeting

\* "<mention> hi" has been answered with the generated text, addressed to its
\* sender.
C15_Witness ==
    /\ rpc = "done"
    /\ IsMentionHi
    /\ routed = "chat"
    /\ replies = <<ReplyAttempt(ev, AnswerText, TRUE)>>

\* C16: a text event that passed the staleness, self-echo and mention gates
\* and whose text, after mention stripping and trimming, is shorter than 2
\* characters (empty included) ends with exactly one reply attempt, the canned
\* greeting; the command router is not entered, no collaborator or memory call
\* is made and Conversation Memory is unchanged.
C16_EmptyContentGreeting ==
    (/\ rpc = "done"
     /\ PassedStaleGate
     /\ ev.sender # bot_info.open_id
     /\ ~(ev.chat_type = "group" /\ ~MentionedMe(bot_info, ev.mentions))
     /\ ev.msg_type = "text"
     /\ TextLen(user_text) < 2)
    => /\ Len(replies) = 1
       /\ replies[1].text = Greeting
       /\ routed = "greeting"
       /\ calls = <<>>
       /\ conversations = mem_before

\* A group text "<mention> h" targeting the bot, one character after
\* stripping, has been greeted while memory held turns.
C16_Witness ==
    /\ rpc = "done"
    /\ ev.chat_type = "group"
    /\ ev.content = TextContent(<<"@_user_1", Space, "h">>)
    /\ user_text = <<"h">>
    /\ routed = "greeting"
    /\ Len(replies) = 1
    /\ MemoryInUse

\* C17: an event routed to /ping, /help or /deep (with or without argument)
\* ends with at least one reply attempt; when the search or fetch collaborator
\* of /deep returned no project, the last reply is the 'not found' reply, and
\* when the report generation failed it is the 'report failed' reply.
C17_CommandsAlwaysReply ==
    (rpc = "done" /\ routed \in {"ping", "help", "deep"}) =>
       /\ Len(replies) >= 1
       /\ (calls # <<>> /\ calls[Len(calls)] = "search_repository:None")
             => replies[Len(replies)].text = <<"deep: no project found">>
       /\ (calls # <<>> /\ calls[Len(calls)] = "fetch_project:None")
             => replies[Len(replies)].text = <<"deep: no such repository">>
       /\ (calls # <<>> /\ calls[Len(calls)] = "report_generation:error")
             => replies[Len(replies)].text = <<"deep: report failed">>

\* "/deep x": the search found nothing and the user has been told so after
\* the progress reply.
C17_Witness ==
    /\ rpc = "done"
    /\ routed = "deep"
    /\ calls = <<"search_repository:None">>
    /\ Len(replies) = 2
    /\ replies[1].text = <<"deep: searching">>
    /\ replies[2].text = <<"deep: no project found">>

\* C18: whatever fails while a worker processes an event, no exception leaves
\* _process_message_worker: the event ends discarded, with a reply sent, or
\* with a reply failure that was logged.
C18_FailuresCaught ==
    rpc = "done" =>
       /\ ending \in {"discarded", "reply_sent", "reply_failed"}
       /\ ending = "reply_failed" => logged

\* C19: when the generation collaborator call of the conversational path
\* failed, no exception leaves the worker, reply_text is the fixed 'service
\* busy' text, and that text is the one reply attempted for the event.
C19_LlmFailureApology ==
    (/\ rpc = "done"
     /\ \E i \in 1..Len(calls) : calls[i] = "generation:error")
    => /\ ending # "escaped"
       /\ reply_text = BusyText
       /\ Len(replies) = 1
       /\ replies[1].text = BusyText

\* The generation call failed and the 'service busy' text has been sent.
C19_Witness ==
    /\ rpc = "done"
    /\ calls = <<"add_user_message", "get_history", "generation:error",
                 "add_assistant_message">>
    /\ ending = "reply_sent"
    /\ replies[1].text = BusyText

\* C20: the event handler is registered and the event stream opened only
\* after the identity call has succeeded, which needs configured credentials;
\* whenever an event is being processed, or has been, start() is serving and
\* bot_info holds the resolved identity, and a start() that returned early has
\* accepted no event.
C20_IdentityBeforeEvents ==
    /\ spc \in {"register", "serving"} => bot_info = Identity
    /\ (rpc # "idle" \/ routed_events > 0) =>
          (spc = "serving" /\ bot_info = Identity)
    /\ spc \in {"unconfigured", "auth_failed", "identity_failed"} =>
          (rpc = "idle" /\ routed_events = 0)

\* An event is at the mention gate, the identity being resolved.
C20_Witness ==
    /\ rpc = "mention"
    /\ spc = "serving"
    /\ bot_info = Identity
    /\ ev.chat_type = "group"

\* C21: under fair scheduling, every event a worker has picked up (the n-th,
\* for every n) reaches the end of _process_message_worker in one of the
\* terminal states Discarded, ReplySent or ReplyFailed.
C21_EveryEventTerminates ==
    \A n \in 1..MaxRouted :
       (routed_events = n /\ rpc # "idle") ~>
          (/\ routed_events = n
           /\ rpc = "done"
           /\ ending \in {"discarded", "reply_sent", "reply_failed"})

\* C22: the stages of an event come in the order received, dedup-checked,
\* enqueued, picked up.  A step of _handle_message moves its thread along
\* idle, acquire, test, (idle | add), evict, submit, idle and changes neither
\* Conversation Memory nor any worker's state (no classification, no
\* collaborator call, no reply); a duplicate is not enqueued; the queue grows
\* only by the id of a thread that passed the gate and reached line 187, once;
\* a worker takes only the head of that queue.
C22_IngressSteps ==
    {<<"idle", "acquire">>, <<"acquire", "test">>, <<"test", "idle">>,
     <<"test", "add">>, <<"add", "evict">>, <<"evict", "submit">>,
     <<"submit", "idle">>}

C22_StageOrder ==
    [][ /\ \A t \in Threads :
             pc'[t] # pc[t] =>
                /\ <<pc[t], pc'[t]>> \in C22_IngressSteps
                /\ UNCHANGED <<memVars, workerVars, routeVars, running>>
                /\ pc[t] # "submit" => work_queue' = work_queue
                /\ pc[t] = "submit" => work_queue' = Append(work_queue, msg[t])
                /\ pc'[t] = "add" => msg[t] \notin processed_messages
        /\ Len(work_queue') > Len(work_queue) =>
             \E t \in Threads : pc[t] = "submit" /\ pc'[t] = "idle"
        /\ \A w \in DOMAIN running :
             (running'[w] # running[w] /\ running'[w] # NoMsg) =>
                /\ work_queue # <<>>
                /\ running'[w] = Head(work_queue)
                /\ work_queue' = Tail(work_queue)
                /\ taken < submitted
      ]_vars

\* An event has gone through every stage: a worker runs it while another
\* delivery is between the gate and the hand-off.
C22_Witness ==
    /\ \E w \in Workers : running[w] # NoMsg
    /\ \E t \in Threads : pc[t] = "submit" /\ outcome[t] = "none"
    /\ \E t \in Threads : outcome[t] = "duplicate"

\* C23: at most max_workers events are being processed at any moment, and
\* while every worker is busy no queued event is taken.
C23_AtMostWProcessing ==
    /\ [](Cardinality({w \in DOMAIN running : running[w] # NoMsg}) <= max_workers)
    /\ [][ (\A w \in DOMAIN running : running[w] # NoMsg) => taken' = taken ]_vars

\* Every worker is busy and an accepted event waits in the queue.
C23_Witness ==
    /\ \A w \in Workers : running[w] # NoMsg
    /\ work_queue # <<>>
    /\ submitted = taken + Len(work_queue)

\* C24: get_history sweeps the whole store before it reads.  When
\* get_history(c) has returned, no context left in the store, of any
\* conversation, is older than ttl_seconds; and the call removes no context
\* whose age is at most ttl_seconds and leaves such a context as it was.
C24_GlobalSweep ==
    /\ [](last_read.chat # "none" =>
             \A d \in Convs :
                conversations[d] # NoCtx =>
                   now - conversations[d].last_updated <= ttl_seconds)
    /\ [][ last_read'.chat # "none" =>
             \A d \in Convs :
                (/\ conversations[d] # NoCtx
                 /\ now - conversations[d].last_updated <= ttl_seconds)
                   => conversations'[d] = conversations[d] ]_vars

\* get_history(c1) returned c1's live history and removed another
\* conversation's expired context.
C24_Witness ==
    /\ last_read.chat = "c1"
    /\ last_read.kept
    /\ ~last_read.empty
    /\ last_read.shrank
    /\ conversations["c2"] = NoCtx

\* the worker is past the mention gate with a fresh group-chat event of a
\* user whose mention list is not empty
C25_GroupWithMentions ==
    /\ rpc \notin {"idle", "stale", "self", "extract", "mention"}
    /\ PassedStaleGate
    /\ ev.sender # bot_info.open_id
    /\ ev.chat_type = "group"
    /\ ev.mentions # <<>>

\* the keys of the mentions that target the bot's id
C25_BotKeys ==
    {ev.mentions[i].key : i \in {j \in 1..Len(ev.mentions) :
                                    ev.mentions[j].open_id = BotOpenId}}

\* the text of the event without those keys, trimmed
C25_Remainder ==
    Strip(SelectSeq(ev.content.text, LAMBDA k : k \notin C25_BotKeys))

\* C25: a group-chat event with a non-empty mention list none of which
\* targets the bot is dropped without reply, call or memory change.  When a
\* mention targets the bot, its key is removed from the text and the trimmed
\* remainder is the text the empty-content guard, the command router and the
\* conversational path work on: a remainder shorter than 2 is greeted,
\* "/ping" gets the pong addressed to the sender, and the conversational path
\* stores the remainder as the user turn.
C25_MentionFilter ==
    C25_GroupWithMentions =>
       /\ C25_BotKeys = {} =>
             (rpc = "done" /\ ending = "discarded" /\ Untouched)
       /\ (C25_BotKeys # {} /\ ev.msg_type = "text" /\ ev.content.json) =>
             /\ user_text = C25_Remainder
             /\ routed = "greeting" <=>
                   (rpc = "done" /\ TextLen(C25_Remainder) < 2)
             /\ (rpc = "done" /\ C25_Remainder = <<"/ping">>) =>
                   /\ routed = "ping"
                   /\ Len(replies) = 1
                   /\ replies[1].text = Pong
                   /\ replies[1].at = ev.sender
             /\ rpc = "llm" =>
                   /\ routed = "chat"
                   /\ conversations[ev.chat_id] # NoCtx
                   /\ LET h == conversations[ev.chat_id].history
                      IN  h[Len(h)].content = C25_Remainder

\* The group text "<mention> /ping", the mention targeting the bot, has been
\* answered with the pong.
C25_Witness ==
    /\ rpc = "done"
    /\ C25_GroupWithMentions
    /\ ev.content = TextContent(<<"@_user_1", Space, "/ping">>)
    /\ ev.mentions = <<Mention("@_user_1", BotOpenId)>>
    /\ user_text = <<"/ping">>
    /\ replies = <<ReplyAttempt(ev, Pong, TRUE)>>
    /\ replies[1].at = UserOpenId

\* the event has passed every gate and the empty-content guard and has been
\* routed by the command router (lines 300-327)
C26_Routed == rpc = "done" /\ routed \in {"ping", "help", "deep", "chat"}

\* a command handler leaves Conversation Memory alone and makes neither a
\* memory call nor the conversational generation call
C26_NoConversation ==
    /\ conversations = mem_before
    /\ \A i \in 1..Len(calls) :
          calls[i] \notin {"add_user_message", "get_history",
                           "add_assistant_message",
                           "generation:answer", "generation:error"}

\* C26 (as claimed): routing is by prefix for all three commands: a text that
\* begins with "/ping" gets the pong, one that begins with "/help" the help
\* text, one that begins with "/deep" the deep-analysis handler, none touching
\* memory or generation; only the other texts reach the conversational path.
C26_PrefixRouting ==
    C26_Routed =>
       /\ routed = "ping" <=> StartsWith(user_text, "/ping")
       /\ routed = "help" <=> StartsWith(user_text, "/help")
       /\ routed = "deep" <=> StartsWith(user_text, "/deep")
       /\ routed # "chat" => C26_NoConversation
       /\ routed = "chat" => (calls # <<>> /\ calls[1] = "add_user_message")

\* C26 (amended): "/deep" is matched as a prefix, "/ping" and "/help" by
\* equality with the whole trimmed text.  The three handlers touch neither
\* memory nor generation and answer with the pong, the help text or the
\* deep-analysis replies.  Every other text, "/ping" followed by anything
\* included, reaches the conversational path, whose first call is
\* add_user_message.
C26_ExactPingHelp ==
    C26_Routed =>
       /\ routed = "deep" <=> StartsWith(user_text, "/deep")
       /\ routed = "ping" <=> user_text = <<"/ping">>
       /\ routed = "help" <=> user_text = <<"/help">>
       /\ routed = "ping" => (Len(replies) = 1 /\ replies[1].text = Pong)
       /\ routed = "help" => (Len(replies) = 1 /\ replies[1].text = HelpText)
       /\ routed # "chat" => C26_NoConversation
       /\ routed = "chat" => (calls # <<>> /\ calls[1] = "add_user_message")

\* A text that begins with "/ping" and goes on has been stored as a user turn
\* and answered by generation.
C26_Witness ==
    /\ C26_Routed
    /\ user_text = <<"/ping", "x">>
    /\ routed = "chat"
    /\ calls = <<"add_user_message", "get_history", "generation:answer",
                 "add_assistant_message">>
    /\ replies = <<ReplyAttempt(ev, AnswerText, TRUE)>>

\* the words of the text the deep-analysis handler was given
C27_Parts == Split(user_text)

\* the handler's argument is of the shape owner/name
C27_ArgIsFullName ==
    /\ Len(C27_Parts) >= 2
    /\ \E i \in 1..Len(C27_Parts[2]) : C27_Parts[2][i] = "a/b"

C27_FetchCalls == {"fetch_project", "fetch_project:None"}

C27_SearchCalls == {"search_repository", "search_repository:None"}

\* C27: in _handle_deep_analysis the argument decides the lookup.  Without an
\* argument the handler calls no collaborator and its only reply is the usage
\* hint.  With an argument that contains "/" its lookup is fetch_project and
\* it never calls search_repository; with any other argument its lookup is
\* search_repository and it never calls fetch_project.
C27_ArgumentDecidesLookup ==
    routed = "deep" =>
       /\ Len(C27_Parts) < 2 =>
             /\ calls = <<>>
             /\ rpc = "done" =>
                   (Len(replies) = 1 /\ replies[1].text = <<"deep: usage">>)
       /\ C27_ArgIsFullName =>
             /\ \A i \in 1..Len(calls) : calls[i] \notin C27_SearchCalls
             /\ rpc \in {"report", "done"} =>
                   (calls # <<>> /\ calls[1] \in C27_FetchCalls)
       /\ (Len(C27_Parts) >= 2 /\ ~C27_ArgIsFullName) =>
             /\ \A i \in 1..Len(calls) : calls[i] \notin C27_FetchCalls
             /\ rpc \in {"report", "done"} =>
                   (calls # <<>> /\ calls[1] \in C27_SearchCalls)

\* "/deep a/b" has been looked up by fetch_project and reported.
C27_Witness ==
    /\ rpc = "done"
    /\ routed = "deep"
    /\ user_text = <<"/deep", Space, "a/b">>
    /\ calls = <<"fetch_project", "report_generation:answer">>
    /\ Len(replies) = 2

C28_Progress == {<<"deep: fetching">>, <<"deep: searching">>}

C28_Failures ==
    {<<"deep: no project found">>, <<"deep: no such repository">>,
     <<"deep: report failed">>}

C28_Generation == {"report_generation:answer", "report_generation:error"}

\* C28: for a /deep command with an argument, the progress reply is attempted
\* before the lookup collaborator is called (no call without it, and at the
\* lookup it is the only reply); report generation is called only as the
\* second call, after a lookup that returned a project; the last reply of the
\* event is the report or a failure reply, and neither is followed by another
\* reply.
C28_DeepOrder ==
    (routed = "deep" /\ Len(Split(user_text)) >= 2) =>
       /\ rpc = "lookup" =>
             (calls = <<>> /\ Len(replies) = 1)
       /\ rpc # "deep" =>
             (replies # <<>> /\ replies[1].text \in C28_Progress)
       /\ calls # <<>> => replies # <<>>
       /\ \A i \in 1..Len(calls) :
             calls[i] \in C28_Generation =>
                /\ i = 2
                /\ calls[1] \in {"fetch_project", "search_repository"}
                /\ project # NoProject
       /\ rpc = "done" =>
             replies[Len(replies)].text \in C28_Failures \cup {<<"deep: report">>}
       /\ \A i \in 1..Len(replies) :
             replies[i].text \in C28_Failures \cup {<<"deep: report">>}
                => i = Len(replies)

\* "/deep x": progress reply, search, "found" reply, report generation that
\* failed, failure reply; nothing after it.
C28_Witness ==
    /\ rpc = "done"
    /\ routed = "deep"
    /\ user_text = <<"/deep", Space, "x">>
    /\ calls = <<"search_repository", "report_generation:error">>
    /\ Len(replies) = 3
    /\ replies[1].text = <<"deep: searching">>
    /\ replies[2].text = <<"deep: found">>
    /\ replies[3].text = <<"deep: report failed">>

\* the text blocks of the post being processed, concatenated and trimmed
C29_PostText == Strip(PostCaption(ItemsOf(ev.content.blocks)))

\* the post being processed contains an image block
C29_HasImage == PostImageKey(ItemsOf(ev.content.blocks), "None") # "None"

\* C29: a rich post that passed the gates is normalised by kind.  With an
\* image block it is handled as an image whose caption is the concatenation
\* of its text blocks.  Without one, the concatenation of its text blocks is
\* the text the empty-content guard, the command router and the
\* conversational path work on: a post whose text is "/ping" gets the pong, a
\* post with a longer text that is no command reaches generation, and only a
\* post with less than two characters of text is greeted.
C29_PostNormalized ==
    (/\ rpc = "done"
     /\ ev.msg_type = "post"
     /\ ev.content.json
     /\ ending # "discarded")
    => /\ C29_HasImage => (routed = "image" /\ caption = C29_PostText)
       /\ ~C29_HasImage =>
             /\ user_text = C29_PostText
             /\ C29_PostText = <<"/ping">> =>
                   (routed = "ping" /\ replies[1].text = Pong)
             /\ routed = "greeting" <=> TextLen(C29_PostText) < 2
             /\ C29_PostText = <<"h", "i">> =>
                   (routed = "chat" /\ calls # <<>>)

\* C30: a failed reply attempt is contained.  Every failed attempt of the
\* event has been printed; the text of a failed attempt is not attempted
\* again; an event whose last attempt failed ends in the reply-failed state
\* (the failure does not leave _reply_text as an exception); and the step
\* that makes a failed attempt changes neither the dedup cache nor
\* Conversation Memory.
C30_ReplyFailureContained ==
    /\ []( /\ (\E i \in 1..Len(replies) : ~replies[i].ok) => logged
           /\ \A i \in 1..Len(replies) : \A j \in 1..Len(replies) :
                 (i < j /\ ~replies[i].ok) => replies[j].text # replies[i].text
           /\ (rpc = "done" /\ replies # <<>> /\ ~replies[Len(replies)].ok)
                 => ending = "reply_failed" )
    /\ [][ (/\ Len(replies') > Len(replies)
            /\ ~replies'[Len(replies')].ok)
           => /\ Len(replies') = Len(replies) + 1
              /\ processed_messages' = processed_messages
              /\ conversations' = conversations ]_vars

\* The pong could not be delivered: one attempt, printed, and the event is
\* over with memory as it was.
C30_Witness ==
    /\ rpc = "done"
    /\ routed = "ping"
    /\ replies = <<ReplyAttempt(ev, Pong, FALSE)>>
    /\ logged
    /\ ending = "reply_failed"
    /\ conversations = mem_before
    /\ MemoryInUse

\* C31: clear(c) removes exactly the context of c.  After the call c has no
\* context and every other conversation's context (turns and last_updated) is
\* what it was; a get_history(c) that follows returns the empty sequence and
\* creates nothing; clear of an id that has no context, a second clear
\* included, changes nothing.
C31_ClearRemovesExactlyOne ==
    /\ [](last_read.cleared # "none" => conversations[last_read.cleared] = NoCtx)
    /\ [][ /\ last_read'.cleared # "none" =>
                /\ \A d \in Convs \ {last_read'.cleared} :
                      conversations'[d] = conversations[d]
                /\ conversations[last_read'.cleared] = NoCtx =>
                      conversations' = conversations
           /\ (last_read.cleared # "none" /\ last_read'.chat = last_read.cleared) =>
                /\ last_read'.empty
                /\ conversations'[last_read.cleared] = NoCtx ]_vars

\* Both conversations got a turn at time 0 and clear("c1") was the latest
\* call: c1 is gone, c2 still has its turn.
C31_Witness ==
    /\ last_read.cleared = "c1"
    /\ adds = 2
    /\ now = 0
    /\ conversations["c1"] = NoCtx
    /\ conversations["c2"] # NoCtx
    /\ Len(conversations["c2"].history) = 1

\* C32: every reply attempt of an event is a reply to that event's
\* message_id; in a group chat it is addressed to the event's sender, in a
\* direct chat it carries no addressee.
C32_ReplyTarget ==
    \A i \in 1..Len(replies) :
       /\ replies[i].to = ev.message_id
       /\ ev.chat_type = "group" => replies[i].at = ev.sender
       /\ ev.chat_type = "p2p" => replies[i].at = "none"
       /\ replies[i].at # "none" <=> ev.chat_type = "group"

\* The second event, a group "/help" with a mention of the bot, has been
\* answered on its own message and addressed to its sender.
C32_Witness ==
    /\ rpc = "done"
    /\ routed_events = 2
    /\ ev.message_id = "m2"
    /\ ev.chat_type = "group"
    /\ routed = "help"
    /\ replies = <<[to |-> "m2", at |-> UserOpenId, text |-> HelpText, ok |-> TRUE]>>

\* C33: when a call of _handle_message that found its id new leaves the
\* locked block (insertion and, when the cache is over its size, the batch
\* eviction done), that id is in the dedup cache.
C33_InsertedIdCached ==
    [][ \A t \in Threads :
           (pc[t] = "evict" /\ pc'[t] = "submit") =>
              msg[t] \in processed_messages' ]_vars

\* C34: when a worker hands the history to the generation collaborator, the
\* history is not empty and its last entry is the user turn of the worker's
\* own event, also while another worker processes an event of the same
\* conversation.
C34_OwnTextLast ==
    \A w \in PoolWorkers :
       wpc[w] = "llm" =>
          /\ whist[w] # <<>>
          /\ whist[w][Len(whist[w])].role = "user"
          /\ whist[w][Len(whist[w])].content = wtext[w]

\* C35: an event that reached the conversational path ends with exactly two
\* turns appended to its conversation, in this order and around the generation
\* call: the user turn with the event's text, then the assistant turn whose
\* content is the text sent as the reply (the fallback text included).
C35_TwoTurnsAppended ==
    (rpc = "done" /\ routed = "chat") =>
       /\ \E g \in {"generation:answer", "generation:error"} :
             calls = <<"add_user_message", "get_history", g,
                       "add_assistant_message">>
       /\ Len(replies) = 1
       /\ conversations[ev.chat_id] # NoCtx
       /\ LET h == conversations[ev.chat_id].history
              n == Len(h)
          IN  /\ n >= 2
              /\ h[n - 1].role = "user"
              /\ h[n - 1].content = user_text
              /\ h[n].role = "assistant"
              /\ h[n].content = replies[1].text

\* C36: get_history is read-only for live contexts.  A call, and a change the
\* caller then makes to the list it got, create no context (the store does
\* not grow, an id without context gets the empty list) and leave the turns
\* and last_updated of every context that is not expired as they were.
C36_ReadOnlyForLive ==
    [][ last_read'.chat # "none" =>
          /\ \A d \in Convs : conversations[d] = NoCtx => conversations'[d] = NoCtx
          /\ StoreSize(conversations') <= StoreSize(conversations)
          /\ conversations[last_read'.chat] = NoCtx => last_read'.empty
          /\ \A d \in Convs :
                (/\ conversations[d] # NoCtx
                 /\ now - conversations[d].last_updated <= ttl_seconds)
                   => conversations'[d] = conversations[d] ]_vars

\* get_history("c1") returned the two stored turns one clock unit after the
\* last add, the caller emptied the list it got, and the stored turns and
\* last_updated are still there.
C36_Witness ==
    /\ last_read.chat = "c1"
    /\ last_read.changed
    /\ last_read.age = 1
    /\ conversations["c1"] # NoCtx
    /\ Len(conversations["c1"].history) = 2
    /\ conversations["c1"].last_updated = now - 1

C37_MemoryCalls == {"add_user_message", "get_history", "add_assistant_message"}

\* C37: Conversation Memory is touched only on the conversational path.
\* While and after an event is processed that has not reached that path (it
\* is still at the gates, was dropped by one, was greeted, was a command or
\* an image), no ConversationMemory method has been called for it, the sweep
\* of get_history included, and every conversation's turns and last_updated
\* are what they were when the event was picked up.
C37_MemoryOnlyOnChatPath ==
    (rpc # "idle" /\ routed # "chat") =>
       /\ conversations = mem_before
       /\ \A i \in 1..Len(calls) : calls[i] \notin C37_MemoryCalls

\* A /deep command has been looked up and reported while memory held turns,
\* which are untouched.
C37_Witness ==
    /\ rpc = "done"
    /\ routed = "deep"
    /\ calls = <<"search_repository", "report_generation:answer">>
    /\ MemoryInUse
    /\ conversations = mem_before

\* the image reference the image handler has for the event: the key found in
\* the post, or the image_key of the image message's content; "None" when
\* there is none, "raise" when the content of an image message does not parse
C38_Reference ==
    IF ev.msg_type = "post"
    THEN PostImageKey(ItemsOf(ev.content.blocks), "None")
    ELSE IF ~ev.content.json THEN "raise" ELSE ev.content.image_key

C38_Texts(rs) == [i \in 1..Len(rs) |-> rs[i].text]

\* C38: an image event that passed the gates (an image message, or a post
\* with an image block) gets at least one reply and its handler lets no
\* exception out.  Without an image reference the only reply is the failure
\* reply and no collaborator is called; content that cannot be read ends in
\* the error reply; otherwise the progress reply comes first and is followed
\* either by the download-failure reply, the vision collaborator not being
\* called, or, after a download, by the analysis result.
C38_ImageAlwaysAnswered ==
    routed = "image" =>
       /\ "analyze_image" \in {calls[i] : i \in 1..Len(calls)} =>
             (calls = <<"download_image", "analyze_image">>
              /\ \A i \in 1..Len(replies) :
                    replies[i].text # <<"image: download failed">>)
       /\ rpc = "done" =>
             /\ replies # <<>>
             /\ ending \in {"reply_sent", "reply_failed"}
             /\ C38_Reference = "None" =>
                   (C38_Texts(replies) = << <<"image: no image info">> >>
                    /\ calls = <<>>)
             /\ C38_Reference = "raise" =>
                   (C38_Texts(replies) = << <<"image: error">> >> /\ calls = <<>>)
             /\ C38_Reference \notin {"None", "raise"} =>
                   \/ /\ C38_Texts(replies) = << <<"image: analyzing">>,
                                                 <<"image: download failed">> >>
                      /\ calls = <<"download_image">>
                   \/ /\ C38_Texts(replies) = << <<"image: analyzing">>,
                                                 <<"image: analysis">> >>
                      /\ calls = <<"download_image", "analyze_image">>

\* An image message with a key: progress reply, then the download failed and
\* the failure was said; the vision collaborator was not called.
C38_Witness ==
    /\ rpc = "done"
    /\ routed = "image"
    /\ ev.msg_type = "image"
    /\ C38_Texts(replies) = << <<"image: analyzing">>, <<"image: download failed">> >>
    /\ calls = <<"download_image">>
    /\ replies[2].ok

====
